---- MODULE Spec2Model ----
(***************************************************************************)
(* fdtables: the virtual file-descriptor table, as implemented by          *)
(* src/src/dashmaparrayglobal.rs (a DashMap of per-cage slot arrays, a     *)
(* DashMap of real-fd reference counts, a Mutex around the close handlers  *)
(* and a Mutex around the epoll side table).                               *)
(*                                                                         *)
(* Spec runs the public operations one after the other (each action is one *)
(* whole call).  A call that panics ends the run: the caller's thread      *)
(* unwinds, so no further operation follows it.                            *)
(***************************************************************************)
EXTENDS Integers, Sequences, FiniteSets, TLC

(***************************************************************************)
(* Bounds of the model.  FD_PER_PROCESS_MAX is 1024 in                     *)
(* commonconstants.rs:5; the model scales the slot array down.             *)
(***************************************************************************)
FD_PER_PROCESS_MAX == 2

MaxEpollEntries == 1

(***************************************************************************)
(* Sentinels of commonconstants.rs.  The source values are 0xff_abcd_ef00  *)
(* .. 02; the model keeps their low 16 bits (TLC integers are 32 bit).     *)
(* They stay mutually distinct and distinct from every real fd used here.  *)
(***************************************************************************)
INVALID_FD == 61184

NO_REAL_FD == 61185

EPOLLFD == 61186

TESTING_CAGEID == 1

\* Inputs the operations are called with.
CageIds == {TESTING_CAGEID, 7}

RealEpollFds == {50}

HandlerFns == {"NULL_FUNC", "_test_close_handler_recursion_helper"}

VirtualFds == 0 .. (FD_PER_PROCESS_MAX - 1)

\* Option<FDTableEntry>
None == <<>>

Some(entry) == <<entry>>

FDTableEntry(realfd, should_cloexec, optionalinfo) ==
    [realfd |-> realfd, should_cloexec |-> should_cloexec,
     optionalinfo |-> optionalinfo]

\* [Option::None; FD_PER_PROCESS_MAX]
EmptyArray == [fd \in VirtualFds |-> None]

EmptyMap == [k \in {} |-> 0]

\* Result values: Ok(v), Err(errno), or a panic of the call.
Ok(v) == [tag |-> "Ok", val |-> v]

Err(errno) == [tag |-> errno, val |-> 0]

Panicked == [tag |-> "Panic", val |-> 0]

VARIABLES
    fdtable,        \* FDTABLE: cageid -> array of Option<FDTableEntry>
    realfdcount,    \* REALFDCOUNT: realfd -> count
    closehandlers,  \* CLOSEHANDLERTABLE: the three registered handlers
    epolltable,     \* EPOLLTABLE
    op,             \* the last call: its name and arguments
    ret,            \* what the last call returned
    fired,          \* the handler calls the last call made, in order
    frame,          \* the call in progress and its position, Idle between calls
    held,           \* the library locks the thread holds
    threads,        \* spawned threads: each one's call in progress and its locals
    shards,         \* the DashMap shard each cage id hashes to, once threads run
    highestneverusedfd  \* muthashmaxglobal's FDTable.highestneverusedfd, per cage

vars ==
    <<fdtable, realfdcount, closehandlers, epolltable, op, ret, fired, frame,
      held, threads, shards, highestneverusedfd>>

Call(name, cageid, virtualfd) ==
    [name |-> name, cageid |-> cageid, virtualfd |-> virtualfd]

HandlerCall(kind, arg) == [kind |-> kind, arg |-> arg]

\* No call is in progress.
Idle ==
    [fn |-> "idle", cageid |-> 0, item |-> 0, phase |-> "idle",
     handler |-> HandlerCall("none", 0), newcount |-> 0, myentry |-> None]

\* The spawned threads.
ThreadIds == {"t1", "t2"}

\* A spawned thread between two calls.  guard is the guard it holds on the
\* shard of cageid: "none", "read" or "write".
\* script and locks serve the runs that follow the locks alone: the lock
\* and unlock steps the call has yet to take, and the locks it holds.
ThreadIdle ==
    [fn |-> "idle", phase |-> "idle", cageid |-> 0, item |-> 0,
     myentry |-> None, therealfd |-> 0, newcount |-> 0, newcageid |-> 0,
     hmcopy |-> None, guard |-> "none", ret |-> Ok(0), fired |-> <<>>,
     calls |-> 0, is_cloexec |-> FALSE, optionalinfo |-> 0,
     script |-> <<>>, locks |-> {}]

\* The shard a cage id hashes to is fixed by the hasher DashMap::new() makes
\* (line 47).  A single caller never waits for a shard, so the shards are
\* left open until threads are spawned.
NoShards == <<>>

\* The caller is alive and between two calls: its last call did not panic
\* and has come back.
Running == ret.tag # "Panic" /\ frame = Idle

(***************************************************************************)
(* Reference counter helpers.                                              *)
(***************************************************************************)
_increment_realfd(count, realfd) ==
    IF realfd = NO_REAL_FD THEN count
    ELSE IF realfd \in DOMAIN count
         THEN [count EXCEPT ![realfd] = @ + 1]
         ELSE count @@ (realfd :> 1)

\* The counter after the decrement, the handler it calls, and whether the
\* call panics (the assert, or unwrap() of a missing entry).
_decrement_realfd(count, realfd) ==
    IF realfd = NO_REAL_FD \/ realfd \notin DOMAIN count
    THEN [count |-> count, fired |-> <<>>, panicked |-> TRUE]
    ELSE LET newcount == count[realfd] - 1 IN
         IF newcount > 0
         THEN [count |-> [count EXCEPT ![realfd] = newcount],
               fired |-> <<HandlerCall("intermediate", realfd)>>,
               panicked |-> FALSE]
         ELSE [count |-> count,
               fired |-> <<HandlerCall("last", realfd)>>,
               panicked |-> FALSE]

\* A removal without the branch for NO_REAL_FD.
CloseEntryNoUnrealBranch(count, entry) ==
    _decrement_realfd(count, entry.realfd)

\* What every removal of an occupied slot does: the unreal handler for
\* NO_REAL_FD, the decrement for anything else.
CloseEntry(count, entry) ==
    IF entry.realfd = NO_REAL_FD
    THEN [count |-> count,
          fired |-> <<HandlerCall("unreal", entry.optionalinfo)>>,
          panicked |-> FALSE]
    ELSE _decrement_realfd(count, entry.realfd)

Init ==
    /\ fdtable = (TESTING_CAGEID :> EmptyArray)
    /\ realfdcount = EmptyMap
    /\ closehandlers = [intermediate |-> "NULL_FUNC", last |-> "NULL_FUNC",
                        unreal |-> "NULL_FUNC"]
    /\ epolltable = [highestneverusedentry |-> 0, thisepolltable |-> EmptyMap,
                     realfdtable |-> EmptyMap]
    /\ op = Call("start", TESTING_CAGEID, 0)
    /\ ret = Ok(0)
    /\ fired = <<>>
    /\ frame = Idle
    /\ held = {}
    /\ threads = [t \in ThreadIds |-> ThreadIdle]
    /\ shards = NoShards
    /\ highestneverusedfd = (TESTING_CAGEID :> 0)

(***************************************************************************)
(* get_unused_virtual_fd                                                   *)
(***************************************************************************)
\* The loop "for fdcandidate in 0..FD_PER_PROCESS_MAX": the first candidate
\* whose slot is none, FD_PER_PROCESS_MAX when the loop runs out.
\* A scan that takes the highest slot that is none instead of the lowest.
FirstUnusedFromTop(myfdarray, fdcandidate) ==
    LET free == { v \in VirtualFds : v >= fdcandidate /\ myfdarray[v] = None } IN
    IF free = {} THEN FD_PER_PROCESS_MAX
    ELSE CHOOSE v \in free : \A w \in free : w <= v

RECURSIVE FirstUnused(_, _)
FirstUnused(myfdarray, fdcandidate) ==
    IF fdcandidate >= FD_PER_PROCESS_MAX THEN FD_PER_PROCESS_MAX
    ELSE IF myfdarray[fdcandidate] = None THEN fdcandidate
    ELSE FirstUnused(myfdarray, fdcandidate + 1)

\* An allocation that makes the cage when the table does not know it.
UnusedVirtualFdResultCreatesCage(table, count, cageid, myentry) ==
    LET known == IF cageid \in DOMAIN table THEN table
                 ELSE table @@ (cageid :> EmptyArray)
        fdcandidate == FirstUnused(known[cageid], 0) IN
    IF fdcandidate < FD_PER_PROCESS_MAX
    THEN [fdtable |-> [known EXCEPT ![cageid][fdcandidate] = Some(myentry)],
          realfdcount |-> _increment_realfd(count, myentry.realfd),
          ret |-> Ok(fdcandidate)]
    ELSE [fdtable |-> known, realfdcount |-> count, ret |-> Err("EMFILE")]

\* An allocation that counts the realfd before it looks for a slot.
UnusedVirtualFdResultCountsFirst(table, count, cageid, myentry) ==
    IF cageid \notin DOMAIN table
    THEN [fdtable |-> table, realfdcount |-> count, ret |-> Panicked]
    ELSE LET fdcandidate == FirstUnused(table[cageid], 0)
             counted == _increment_realfd(count, myentry.realfd) IN
         IF fdcandidate < FD_PER_PROCESS_MAX
         THEN [fdtable |-> [table EXCEPT ![cageid][fdcandidate] = Some(myentry)],
               realfdcount |-> counted, ret |-> Ok(fdcandidate)]
         ELSE [fdtable |-> table, realfdcount |-> counted, ret |-> Err("EMFILE")]

UnusedVirtualFdResult(table, count, cageid, myentry) ==
    IF cageid \notin DOMAIN table
    THEN [fdtable |-> table, realfdcount |-> count, ret |-> Panicked]
    ELSE LET fdcandidate == FirstUnused(table[cageid], 0) IN
         IF fdcandidate < FD_PER_PROCESS_MAX
         THEN [fdtable |-> [table EXCEPT ![cageid][fdcandidate] = Some(myentry)],
               realfdcount |-> _increment_realfd(count, myentry.realfd),
               ret |-> Ok(fdcandidate)]
         ELSE [fdtable |-> table, realfdcount |-> count, ret |-> Err("EMFILE")]

get_unused_virtual_fd(cageid, realfd, should_cloexec, optionalinfo) ==
    /\ Running
    /\ LET r == UnusedVirtualFdResult(fdtable, realfdcount, cageid,
                    FDTableEntry(realfd, should_cloexec, optionalinfo)) IN
         /\ fdtable' = r.fdtable
         /\ realfdcount' = r.realfdcount
         /\ ret' = r.ret
    /\ fired' = <<>>
    /\ op' = Call("get_unused_virtual_fd", cageid, 0)
    /\ UNCHANGED <<closehandlers, epolltable, frame, held, threads, shards, highestneverusedfd>>

(***************************************************************************)
(* get_specific_virtual_fd                                                 *)
(***************************************************************************)
\* The occupant removed before the new realfd is counted.
SpecificFdCountsDecrementFirst(count, occupant, realfd) ==
    IF occupant = None
    THEN [count |-> _increment_realfd(count, realfd), fired |-> <<>>,
          panicked |-> FALSE]
    ELSE LET c == CloseEntry(count, occupant[1]) IN
         [count |-> _increment_realfd(c.count, realfd), fired |-> c.fired,
          panicked |-> c.panicked]

\* The counter and the handler calls of lines 169-181: the increment for the
\* new realfd, then the removal of the occupant (if any).
SpecificFdCounts(count, occupant, realfd) ==
    LET incremented == _increment_realfd(count, realfd) IN
    IF occupant = None
    THEN [count |-> incremented, fired |-> <<>>, panicked |-> FALSE]
    ELSE CloseEntry(incremented, occupant[1])

\* The bound check of line 156.
SpecificFdRejected(requested_virtualfd) ==
    requested_virtualfd > FD_PER_PROCESS_MAX

SpecificVirtualFdResult(table, count, cageid, requested_virtualfd, myentry) ==
    IF cageid \notin DOMAIN table
    THEN [fdtable |-> table, realfdcount |-> count, fired |-> <<>>,
          ret |-> Panicked]
    ELSE IF SpecificFdRejected(requested_virtualfd)
    THEN [fdtable |-> table, realfdcount |-> count, fired |-> <<>>,
          ret |-> Err("EBADF")]
    ELSE IF requested_virtualfd \notin VirtualFds
    \* the array index of line 172 is out of bounds, after the increment
    THEN [fdtable |-> table,
          realfdcount |-> _increment_realfd(count, myentry.realfd),
          fired |-> <<>>, ret |-> Panicked]
    ELSE LET c == SpecificFdCounts(count, table[cageid][requested_virtualfd],
                                   myentry.realfd) IN
         IF c.panicked
         THEN [fdtable |-> table, realfdcount |-> c.count, fired |-> c.fired,
               ret |-> Panicked]
         ELSE [fdtable |-> [table EXCEPT
                              ![cageid][requested_virtualfd] = Some(myentry)],
               realfdcount |-> c.count, fired |-> c.fired, ret |-> Ok(0)]

get_specific_virtual_fd(cageid, requested_virtualfd, realfd, should_cloexec, optionalinfo) ==
    /\ Running
    /\ LET r == SpecificVirtualFdResult(fdtable, realfdcount, cageid,
                    requested_virtualfd,
                    FDTableEntry(realfd, should_cloexec, optionalinfo)) IN
         /\ fdtable' = r.fdtable
         /\ realfdcount' = r.realfdcount
         /\ fired' = r.fired
         /\ ret' = r.ret
    /\ op' = Call("get_specific_virtual_fd", cageid, requested_virtualfd)
    /\ UNCHANGED <<closehandlers, epolltable, frame, held, threads, shards, highestneverusedfd>>

(***************************************************************************)
(* close_virtualfd                                                         *)
(***************************************************************************)
CloseVirtualFdResult(table, count, cageid, virtfd) ==
    IF cageid \notin DOMAIN table \/ virtfd \notin VirtualFds
    THEN [fdtable |-> table, realfdcount |-> count, fired |-> <<>>,
          ret |-> Panicked]
    ELSE IF table[cageid][virtfd] = None
    THEN [fdtable |-> table, realfdcount |-> count, fired |-> <<>>,
          ret |-> Err("EBADFD")]
    ELSE LET c == CloseEntry(count, table[cageid][virtfd][1]) IN
         IF c.panicked
         THEN [fdtable |-> table, realfdcount |-> c.count, fired |-> c.fired,
               ret |-> Panicked]
         ELSE [fdtable |-> [table EXCEPT ![cageid][virtfd] = None],
               realfdcount |-> c.count, fired |-> c.fired, ret |-> Ok(0)]

close_virtualfd(cageid, virtfd) ==
    /\ Running
    /\ LET r == CloseVirtualFdResult(fdtable, realfdcount, cageid, virtfd) IN
         /\ fdtable' = r.fdtable
         /\ realfdcount' = r.realfdcount
         /\ fired' = r.fired
         /\ ret' = r.ret
    /\ op' = Call("close_virtualfd", cageid, virtfd)
    /\ UNCHANGED <<closehandlers, epolltable, frame, held, threads, shards, highestneverusedfd>>

(***************************************************************************)
(* copy_fdtable_for_cage                                                   *)
(***************************************************************************)
\* The loop of lines 247-254 over the source cage's array.
RECURSIVE IncrementCopied(_, _, _)
IncrementCopied(count, srcarray, item) ==
    IF item >= FD_PER_PROCESS_MAX THEN count
    ELSE IF srcarray[item] # None /\ srcarray[item][1].realfd # NO_REAL_FD
    THEN IncrementCopied(_increment_realfd(count, srcarray[item][1].realfd),
                         srcarray, item + 1)
    ELSE IncrementCopied(count, srcarray, item + 1)

\* A fork that publishes an empty array for the new cage.
CopyFdtableResultEmptyCage(table, count, srccageid, newcageid) ==
    IF srccageid \notin DOMAIN table \/ newcageid \in DOMAIN table
    THEN [fdtable |-> table, realfdcount |-> count, ret |-> Panicked]
    ELSE [fdtable |-> table @@ (newcageid :> EmptyArray),
          realfdcount |-> IncrementCopied(count, table[srccageid], 0),
          ret |-> Ok(0)]

CopyFdtableResult(table, count, srccageid, newcageid) ==
    IF srccageid \notin DOMAIN table \/ newcageid \in DOMAIN table
    THEN [fdtable |-> table, realfdcount |-> count, ret |-> Panicked]
    ELSE LET hmcopy == table[srccageid] IN
         [fdtable |-> table @@ (newcageid :> hmcopy),
          realfdcount |-> IncrementCopied(count, table[srccageid], 0),
          ret |-> Ok(0)]

copy_fdtable_for_cage(srccageid, newcageid) ==
    /\ Running
    /\ LET r == CopyFdtableResult(fdtable, realfdcount, srccageid, newcageid) IN
         /\ fdtable' = r.fdtable
         /\ realfdcount' = r.realfdcount
         /\ ret' = r.ret
    /\ fired' = <<>>
    /\ op' = Call("copy_fdtable_for_cage", srccageid, 0)
    /\ UNCHANGED <<closehandlers, epolltable, frame, held, threads, shards, highestneverusedfd>>

(***************************************************************************)
(* remove_cage_from_fdtable                                                *)
(***************************************************************************)
\* The loop of lines 271-283: every occupied slot is closed, in slot order;
\* the array itself is left alone (the whole cage is removed afterwards).
RECURSIVE RemoveCageWalk(_, _, _, _)
RemoveCageWalk(count, firedsofar, myfdarray, item) ==
    IF item >= FD_PER_PROCESS_MAX
    THEN [count |-> count, fired |-> firedsofar, panicked |-> FALSE]
    ELSE IF myfdarray[item] = None
    THEN RemoveCageWalk(count, firedsofar, myfdarray, item + 1)
    ELSE LET c == CloseEntry(count, myfdarray[item][1]) IN
         IF c.panicked
         THEN [count |-> c.count, fired |-> firedsofar \o c.fired,
               panicked |-> TRUE]
         ELSE RemoveCageWalk(c.count, firedsofar \o c.fired, myfdarray,
                             item + 1)

RemoveCageResult(table, count, cageid) ==
    IF cageid \notin DOMAIN table
    THEN [fdtable |-> table, realfdcount |-> count, fired |-> <<>>,
          ret |-> Panicked]
    ELSE LET w == RemoveCageWalk(count, <<>>, table[cageid], 0) IN
         IF w.panicked
         THEN [fdtable |-> table, realfdcount |-> w.count, fired |-> w.fired,
               ret |-> Panicked]
         ELSE [fdtable |-> [c \in DOMAIN table \ {cageid} |-> table[c]],
               realfdcount |-> w.count, fired |-> w.fired, ret |-> Ok(0)]

remove_cage_from_fdtable(cageid) ==
    /\ Running
    /\ LET r == RemoveCageResult(fdtable, realfdcount, cageid) IN
         /\ fdtable' = r.fdtable
         /\ realfdcount' = r.realfdcount
         /\ fired' = r.fired
         /\ ret' = r.ret
    /\ op' = Call("remove_cage_from_fdtable", cageid, 0)
    /\ UNCHANGED <<closehandlers, epolltable, frame, held, threads, shards, highestneverusedfd>>

(***************************************************************************)
(* empty_fds_for_exec                                                      *)
(***************************************************************************)
\* The loop of lines 300-313: every occupied slot with should_cloexec is
\* closed and set to None, in slot order.
RECURSIVE EmptyFdsWalk(_, _, _, _)
EmptyFdsWalk(count, firedsofar, myfdarray, item) ==
    IF item >= FD_PER_PROCESS_MAX
    THEN [count |-> count, fired |-> firedsofar, array |-> myfdarray,
          panicked |-> FALSE]
    ELSE IF myfdarray[item] = None \/ ~myfdarray[item][1].should_cloexec
    THEN EmptyFdsWalk(count, firedsofar, myfdarray, item + 1)
    ELSE LET c == CloseEntry(count, myfdarray[item][1]) IN
         IF c.panicked
         THEN [count |-> c.count, fired |-> firedsofar \o c.fired,
               array |-> myfdarray, panicked |-> TRUE]
         ELSE EmptyFdsWalk(c.count, firedsofar \o c.fired,
                           [myfdarray EXCEPT ![item] = None], item + 1)

EmptyFdsResult(table, count, cageid) ==
    IF cageid \notin DOMAIN table
    THEN [fdtable |-> table, realfdcount |-> count, fired |-> <<>>,
          ret |-> Panicked]
    ELSE LET w == EmptyFdsWalk(count, <<>>, table[cageid], 0) IN
         [fdtable |-> [table EXCEPT ![cageid] = w.array],
          realfdcount |-> w.count, fired |-> w.fired,
          ret |-> IF w.panicked THEN Panicked ELSE Ok(0)]

empty_fds_for_exec(cageid) ==
    /\ Running
    /\ LET r == EmptyFdsResult(fdtable, realfdcount, cageid) IN
         /\ fdtable' = r.fdtable
         /\ realfdcount' = r.realfdcount
         /\ fired' = r.fired
         /\ ret' = r.ret
    /\ op' = Call("empty_fds_for_exec", cageid, 0)
    /\ UNCHANGED <<closehandlers, epolltable, frame, held, threads, shards, highestneverusedfd>>

(***************************************************************************)
(* init_empty_cage, register_close_handlers                                *)
(***************************************************************************)
init_empty_cage(cageid) ==
    /\ Running
    /\ IF cageid \in DOMAIN fdtable
       THEN /\ ret' = Panicked
            /\ UNCHANGED fdtable
       ELSE /\ fdtable' = fdtable @@ (cageid :> EmptyArray)
            /\ ret' = Ok(0)
    /\ fired' = <<>>
    /\ op' = Call("init_empty_cage", cageid, 0)
    /\ UNCHANGED <<realfdcount, closehandlers, epolltable, frame, held, threads, shards, highestneverusedfd>>

register_close_handlers(intermediate, last, unreal) ==
    /\ Running
    /\ closehandlers' = [intermediate |-> intermediate, last |-> last,
                         unreal |-> unreal]
    /\ fired' = <<>>
    /\ ret' = Ok(0)
    /\ op' = Call("register_close_handlers", 0, 0)
    /\ UNCHANGED <<fdtable, realfdcount, epolltable, frame, held, threads, shards, highestneverusedfd>>

(***************************************************************************)
(* epoll_create_helper                                                     *)
(***************************************************************************)
\* An epoll_create_helper that takes its entry number before it asks for a
\* virtual fd, and keeps it taken when there is none.
EpollCreateResultTakesEntryFirst(table, count, ept, cageid, realfd, should_cloexec) ==
    LET r == UnusedVirtualFdResult(table, count, cageid,
                 FDTableEntry(EPOLLFD, should_cloexec,
                              ept.highestneverusedentry))
        newentry == ept.highestneverusedentry
        taken == [ept EXCEPT !.highestneverusedentry = @ + 1]
    IN
    IF r.ret.tag # "Ok"
    THEN [fdtable |-> table, realfdcount |-> count, epolltable |-> taken,
          ret |-> r.ret]
    ELSE [fdtable |-> r.fdtable, realfdcount |-> r.realfdcount,
          epolltable |->
              [highestneverusedentry |-> ept.highestneverusedentry + 1,
               realfdtable |-> ept.realfdtable @@ (newentry :> realfd),
               thisepolltable |-> ept.thisepolltable @@ (newentry :> EmptyMap)],
          ret |-> r.ret]

EpollCreateResult(table, count, ept, cageid, realfd, should_cloexec) ==
    LET r == UnusedVirtualFdResult(table, count, cageid,
                 FDTableEntry(EPOLLFD, should_cloexec,
                              ept.highestneverusedentry))
        newentry == ept.highestneverusedentry
    IN
    IF r.ret.tag # "Ok"
    THEN [fdtable |-> table, realfdcount |-> count, epolltable |-> ept,
          ret |-> r.ret]
    ELSE [fdtable |-> r.fdtable, realfdcount |-> r.realfdcount,
          epolltable |->
              [highestneverusedentry |-> ept.highestneverusedentry + 1,
               realfdtable |-> ept.realfdtable @@ (newentry :> realfd),
               thisepolltable |-> ept.thisepolltable @@ (newentry :> EmptyMap)],
          ret |-> r.ret]

epoll_create_helper(cageid, realfd, should_cloexec) ==
    /\ Running
    /\ LET r == EpollCreateResult(fdtable, realfdcount, epolltable, cageid,
                                  realfd, should_cloexec) IN
         /\ fdtable' = r.fdtable
         /\ realfdcount' = r.realfdcount
         /\ epolltable' = r.epolltable
         /\ ret' = r.ret
    /\ fired' = <<>>
    /\ op' = Call("epoll_create_helper", cageid, 0)
    /\ UNCHANGED <<closehandlers, frame, held, threads, shards, highestneverusedfd>>

\* The runs stop making epollfds once MaxEpollEntries of them exist.
EpollEntriesLeft == epolltable.highestneverusedentry < MaxEpollEntries

(***************************************************************************)
(* translate_virtual_fd, set_cloexec, get_optionalinfo, set_optionalinfo   *)
(***************************************************************************)
\* A translate that answers with the wrong field of the record.
TranslateVirtualFdResultReturnsAux(table, cageid, virtualfd) ==
    IF cageid \notin DOMAIN table \/ virtualfd \notin VirtualFds
    THEN Panicked
    ELSE IF table[cageid][virtualfd] = None THEN Err("EBADFD")
    ELSE Ok(table[cageid][virtualfd][1].optionalinfo)

TranslateVirtualFdResult(table, cageid, virtualfd) ==
    IF cageid \notin DOMAIN table \/ virtualfd \notin VirtualFds
    THEN Panicked
    ELSE IF table[cageid][virtualfd] = None THEN Err("EBADFD")
    ELSE Ok(table[cageid][virtualfd][1].realfd)

translate_virtual_fd(cageid, virtualfd) ==
    /\ Running
    /\ ret' = TranslateVirtualFdResult(fdtable, cageid, virtualfd)
    /\ fired' = <<>>
    /\ op' = Call("translate_virtual_fd", cageid, virtualfd)
    /\ UNCHANGED <<fdtable, realfdcount, closehandlers, epolltable, frame, held, threads, shards, highestneverusedfd>>

\* A set_cloexec that writes the flag into every occupied slot of the cage.
SetCloexecResultAllSlots(table, cageid, virtualfd, is_cloexec) ==
    IF cageid \notin DOMAIN table \/ virtualfd \notin VirtualFds
    THEN [fdtable |-> table, ret |-> Panicked]
    ELSE IF table[cageid][virtualfd] = None
    THEN [fdtable |-> table, ret |-> Err("EBADFD")]
    ELSE [fdtable |->
              [table EXCEPT ![cageid] =
                  [v \in VirtualFds |->
                      IF table[cageid][v] = None THEN None
                      ELSE Some([table[cageid][v][1] EXCEPT
                                    !.should_cloexec = is_cloexec])]],
          ret |-> Ok(0)]

SetCloexecResult(table, cageid, virtualfd, is_cloexec) ==
    IF cageid \notin DOMAIN table \/ virtualfd \notin VirtualFds
    THEN [fdtable |-> table, ret |-> Panicked]
    ELSE IF table[cageid][virtualfd] = None
    THEN [fdtable |-> table, ret |-> Err("EBADFD")]
    ELSE [fdtable |-> [table EXCEPT
                         ![cageid][virtualfd][1].should_cloexec = is_cloexec],
          ret |-> Ok(0)]

set_cloexec(cageid, virtualfd, is_cloexec) ==
    /\ Running
    /\ LET r == SetCloexecResult(fdtable, cageid, virtualfd, is_cloexec) IN
         /\ fdtable' = r.fdtable
         /\ ret' = r.ret
    /\ fired' = <<>>
    /\ op' = Call("set_cloexec", cageid, virtualfd)
    /\ UNCHANGED <<realfdcount, closehandlers, epolltable, frame, held, threads, shards, highestneverusedfd>>

GetOptionalinfoResult(table, cageid, virtualfd) ==
    IF cageid \notin DOMAIN table \/ virtualfd \notin VirtualFds
    THEN Panicked
    ELSE IF table[cageid][virtualfd] = None THEN Err("EBADFD")
    ELSE Ok(table[cageid][virtualfd][1].optionalinfo)

get_optionalinfo(cageid, virtualfd) ==
    /\ Running
    /\ ret' = GetOptionalinfoResult(fdtable, cageid, virtualfd)
    /\ fired' = <<>>
    /\ op' = Call("get_optionalinfo", cageid, virtualfd)
    /\ UNCHANGED <<fdtable, realfdcount, closehandlers, epolltable, frame, held, threads, shards, highestneverusedfd>>

SetOptionalinfoResult(table, cageid, virtualfd, optionalinfo) ==
    IF cageid \notin DOMAIN table \/ virtualfd \notin VirtualFds
    THEN [fdtable |-> table, ret |-> Panicked]
    ELSE IF table[cageid][virtualfd] = None
    THEN [fdtable |-> table, ret |-> Err("EBADFD")]
    ELSE [fdtable |-> [table EXCEPT
                         ![cageid][virtualfd][1].optionalinfo = optionalinfo],
          ret |-> Ok(0)]

set_optionalinfo(cageid, virtualfd, optionalinfo) ==
    /\ Running
    /\ LET r == SetOptionalinfoResult(fdtable, cageid, virtualfd,
                                      optionalinfo) IN
         /\ fdtable' = r.fdtable
         /\ ret' = r.ret
    /\ fired' = <<>>
    /\ op' = Call("set_optionalinfo", cageid, virtualfd)
    /\ UNCHANGED <<realfdcount, closehandlers, epolltable, frame, held, threads, shards, highestneverusedfd>>

(***************************************************************************)
(* The steps of a sequential caller.  Every call names an existing cage    *)
(* (naming an unknown cage breaks the caller's contract); the records and  *)
(* the requested fds come from the sets the specification passes in.       *)
(***************************************************************************)
AllocateStep(entries) ==
    \E cageid \in DOMAIN fdtable, e \in entries :
        get_unused_virtual_fd(cageid, e.realfd, e.should_cloexec,
                              e.optionalinfo)

SetSpecificStep(entries, requested) ==
    \E cageid \in DOMAIN fdtable, v \in requested, e \in entries :
        get_specific_virtual_fd(cageid, v, e.realfd, e.should_cloexec,
                                e.optionalinfo)

CloseStep ==
    \E cageid \in DOMAIN fdtable, v \in VirtualFds : close_virtualfd(cageid, v)

ForkStep ==
    \E src \in DOMAIN fdtable, new \in CageIds \ DOMAIN fdtable :
        copy_fdtable_for_cage(src, new)

ExitStep == \E cageid \in DOMAIN fdtable : remove_cage_from_fdtable(cageid)

ExecStep == \E cageid \in DOMAIN fdtable : empty_fds_for_exec(cageid)

InitCageStep == \E cageid \in CageIds \ DOMAIN fdtable : init_empty_cage(cageid)

EpollCreateStep ==
    \E cageid \in DOMAIN fdtable, realfd \in RealEpollFds,
       should_cloexec \in {TRUE} :
        EpollEntriesLeft /\ epoll_create_helper(cageid, realfd, should_cloexec)

\* The records allocate and set_specific are called with.
Entries ==
    { FDTableEntry(10, FALSE, 100), FDTableEntry(20, TRUE, 101),
      FDTableEntry(NO_REAL_FD, TRUE, 101) }

(***************************************************************************)
(* Spec: the lifecycle operations, in any order, with in-range fds.        *)
(***************************************************************************)
Next ==
    \/ AllocateStep(Entries)
    \/ SetSpecificStep(Entries, VirtualFds)
    \/ CloseStep
    \/ ForkStep
    \/ ExitStep
    \/ ExecStep
    \/ InitCageStep
    \/ EpollCreateStep

Spec == Init /\ [][Next]_vars

(***************************************************************************)
(* SpecSmall: the same operations without epoll, over two records that     *)
(* share one real descriptor.                                              *)
(* SpecRange: SpecSmall with requested fds at and past the end of the      *)
(* array.                                                                  *)
(***************************************************************************)
SmallEntries ==
    { FDTableEntry(10, FALSE, 100), FDTableEntry(10, TRUE, 101) }

NextSmall ==
    \/ AllocateStep(SmallEntries)
    \/ SetSpecificStep(SmallEntries, VirtualFds)
    \/ CloseStep
    \/ ForkStep
    \/ ExitStep
    \/ ExecStep
    \/ InitCageStep

SpecSmall == Init /\ [][NextSmall]_vars

NextRange ==
    \/ AllocateStep(SmallEntries)
    \/ SetSpecificStep(SmallEntries, 0 .. (FD_PER_PROCESS_MAX + 1))
    \/ CloseStep
    \/ ForkStep
    \/ ExitStep
    \/ ExecStep
    \/ InitCageStep

SpecRange == Init /\ [][NextRange]_vars

(***************************************************************************)
(* The calls that invoke close handlers, step by step: which locks the     *)
(* thread holds when it calls a handler, and what a handler that calls     *)
(* back into the library meets.  held = {"FDTABLE"} stands for a guard on  *)
(* the shard of the call's cage, "CLOSEHANDLERTABLE" for the Mutex guard.  *)
(***************************************************************************)
\* REALFD of the recursion tests.
REALFD == 57

ReentrantEntries ==
    { FDTableEntry(REALFD, FALSE, 10), FDTableEntry(NO_REAL_FD, TRUE, 10) }

Pending == [tag |-> "Pending", val |-> 0]

NullHandlers ==
    [intermediate |-> "NULL_FUNC", last |-> "NULL_FUNC", unreal |-> "NULL_FUNC"]

\* The call starts and takes its guard on the cage's array.
Enter(name, cageid, item, myentry) ==
    /\ frame' = [fn |-> name, cageid |-> cageid, item |-> item,
                 phase |-> "scan", handler |-> HandlerCall("none", 0),
                 newcount |-> 0, myentry |-> myentry]
    /\ held' = {"FDTABLE"}
    /\ op' = Call(name, cageid, item)
    /\ ret' = Pending
    /\ fired' = <<>>

\* close_virtualfd, line 364: get_mut, held until the call returns.
close_virtualfd_enter(cageid, virtfd) ==
    /\ Running
    /\ cageid \in DOMAIN fdtable
    /\ virtfd \in VirtualFds
    /\ Enter("close_virtualfd", cageid, virtfd, None)
    /\ UNCHANGED <<fdtable, realfdcount, closehandlers, epolltable, threads, shards, highestneverusedfd>>

\* get_specific_virtual_fd, lines 171-172: the increment, then the read
\* guard that the scrutinee of "if let" keeps for the whole statement.
get_specific_virtual_fd_enter(cageid, requested_virtualfd, realfd, should_cloexec, optionalinfo) ==
    /\ Running
    /\ cageid \in DOMAIN fdtable
    /\ requested_virtualfd \in VirtualFds
    /\ realfdcount' = _increment_realfd(realfdcount, realfd)
    /\ Enter("get_specific_virtual_fd", cageid, requested_virtualfd,
             Some(FDTableEntry(realfd, should_cloexec, optionalinfo)))
    /\ UNCHANGED <<fdtable, closehandlers, epolltable, threads, shards, highestneverusedfd>>

\* empty_fds_for_exec, line 299: get_mut, held over the whole loop.
empty_fds_for_exec_enter(cageid) ==
    /\ Running
    /\ cageid \in DOMAIN fdtable
    /\ Enter("empty_fds_for_exec", cageid, 0, None)
    /\ UNCHANGED <<fdtable, realfdcount, closehandlers, epolltable, threads, shards, highestneverusedfd>>

\* remove_cage_from_fdtable, line 270: get, held until drop(myfdarray).
remove_cage_from_fdtable_enter(cageid) ==
    /\ Running
    /\ cageid \in DOMAIN fdtable
    /\ Enter("remove_cage_from_fdtable", cageid, 0, None)
    /\ UNCHANGED <<fdtable, realfdcount, closehandlers, epolltable, threads, shards, highestneverusedfd>>

\* Does the call close this slot?
Selected(fn, slot) ==
    /\ slot # None
    /\ (fn = "empty_fds_for_exec") => slot[1].should_cloexec

\* The position after the current slot: the next slot of a loop, or the
\* end of the call.
Advance(fr) ==
    IF /\ fr.fn \in {"empty_fds_for_exec", "remove_cage_from_fdtable"}
       /\ fr.item + 1 < FD_PER_PROCESS_MAX
    THEN [fr EXCEPT !.item = @ + 1, !.phase = "scan"]
    ELSE [fr EXCEPT !.phase = "return"]

\* The test of the current slot, up to the handler call: the handler is
\* chosen and CLOSEHANDLERTABLE is locked (lines 175, 276, 305, 372, 406).
ScanSlot ==
    /\ frame.phase = "scan"
    /\ LET slot == fdtable[frame.cageid][frame.item] IN
       IF ~Selected(frame.fn, slot)
       THEN IF frame.fn = "close_virtualfd"
            THEN /\ ret' = Err("EBADFD")
                 /\ frame' = Idle
                 /\ held' = {}
            ELSE /\ frame' = Advance(frame)
                 /\ UNCHANGED <<ret, held>>
       ELSE LET c == CloseEntry(realfdcount, slot[1]) IN
            IF c.panicked
            THEN /\ ret' = Panicked
                 /\ frame' = Idle
                 /\ held' = {}
            ELSE /\ frame' = [frame EXCEPT
                               !.phase = "handler",
                               !.handler = c.fired[1],
                               !.newcount =
                                   IF slot[1].realfd = NO_REAL_FD THEN 0
                                   ELSE realfdcount[slot[1].realfd] - 1]
                 /\ held' = held \cup {"CLOSEHANDLERTABLE"}
                 /\ UNCHANGED ret
    /\ UNCHANGED <<fdtable, realfdcount, closehandlers, epolltable, op, fired, threads, shards, highestneverusedfd>>

\* How _test_close_handler_recursion_helper ends when the thread holds
\* heldlocks.  Its first statement, register_close_handlers, locks
\* CLOSEHANDLERTABLE, a std Mutex: locking it on the thread that holds it
\* never returns, it deadlocks or panics.  Its second, get_unused_virtual_fd
\* on TESTING_CAGEID, waits for ever for a shard the thread has a guard of.
HelperOutcomes(heldlocks) ==
    IF "CLOSEHANDLERTABLE" \in heldlocks THEN {"deadlock", "panic"}
    ELSE IF "FDTABLE" \in heldlocks THEN {"deadlock"}
    ELSE {"returns"}

\* The helper's allocate and close, both unwrapped.
HelperResult(table, count) ==
    LET a == UnusedVirtualFdResult(table, count, TESTING_CAGEID,
                                   FDTableEntry(REALFD, FALSE, 10)) IN
    IF a.ret.tag # "Ok"
    THEN [fdtable |-> a.fdtable, realfdcount |-> a.realfdcount,
          ret |-> Panicked]
    ELSE LET cl == CloseVirtualFdResult(a.fdtable, a.realfdcount,
                                        TESTING_CAGEID, a.ret.val) IN
         [fdtable |-> cl.fdtable, realfdcount |-> cl.realfdcount,
          ret |-> IF cl.ret.tag = "Ok" THEN cl.ret ELSE Panicked]

\* The registered handler runs.
InvokeHandler ==
    /\ frame.phase = "handler"
    /\ fired' = Append(fired, frame.handler)
    /\ IF closehandlers[frame.handler.kind] = "NULL_FUNC"
       THEN /\ frame' = [frame EXCEPT !.phase = "after"]
            /\ UNCHANGED <<fdtable, realfdcount, closehandlers, ret, held>>
       ELSE \E outcome \in HelperOutcomes(held) :
              CASE outcome = "deadlock" ->
                     /\ frame' = [frame EXCEPT !.phase = "deadlock"]
                     /\ closehandlers' =
                            IF "CLOSEHANDLERTABLE" \in held
                            THEN closehandlers ELSE NullHandlers
                     /\ UNCHANGED <<fdtable, realfdcount, ret, held>>
                [] outcome = "panic" ->
                     /\ ret' = Panicked
                     /\ frame' = Idle
                     /\ held' = {}
                     /\ UNCHANGED <<fdtable, realfdcount, closehandlers>>
                [] OTHER ->
                     LET h == HelperResult(fdtable, realfdcount) IN
                     /\ fdtable' = h.fdtable
                     /\ realfdcount' = h.realfdcount
                     /\ closehandlers' = NullHandlers
                     /\ IF h.ret.tag = "Ok"
                        THEN /\ frame' = [frame EXCEPT !.phase = "after"]
                             /\ UNCHANGED <<ret, held>>
                        ELSE /\ ret' = Panicked
                             /\ frame' = Idle
                             /\ held' = {}
    /\ UNCHANGED <<epolltable, op, threads, shards, highestneverusedfd>>

\* The handler has returned: the count is written back (line 409), the
\* CLOSEHANDLERTABLE guard goes, close and exec set the slot to None.
ResumeAfterHandler ==
    /\ frame.phase = "after"
    /\ realfdcount' =
           IF frame.handler.kind = "intermediate"
           THEN (frame.handler.arg :> frame.newcount) @@ realfdcount
           ELSE realfdcount
    /\ fdtable' =
           IF frame.fn \in {"close_virtualfd", "empty_fds_for_exec"}
           THEN [fdtable EXCEPT ![frame.cageid][frame.item] = None]
           ELSE fdtable
    /\ held' = held \ {"CLOSEHANDLERTABLE"}
    /\ frame' = Advance(frame)
    /\ UNCHANGED <<closehandlers, epolltable, op, ret, fired, threads, shards, highestneverusedfd>>

\* The call returns: get_specific_virtual_fd installs its record (line
\* 184), remove_cage_from_fdtable removes the cage (line 288); every guard
\* is dropped.
ReturnStep ==
    /\ frame.phase = "return"
    /\ fdtable' =
           CASE frame.fn = "get_specific_virtual_fd" ->
                  [fdtable EXCEPT ![frame.cageid][frame.item] = frame.myentry]
             [] frame.fn = "remove_cage_from_fdtable" ->
                  [c \in DOMAIN fdtable \ {frame.cageid} |-> fdtable[c]]
             [] OTHER -> fdtable
    /\ ret' = Ok(0)
    /\ frame' = Idle
    /\ held' = {}
    /\ UNCHANGED <<realfdcount, closehandlers, epolltable, op, fired, threads, shards, highestneverusedfd>>

RegisterStep ==
    \E intermediate \in HandlerFns, last \in HandlerFns, unreal \in HandlerFns :
        register_close_handlers(intermediate, last, unreal)

CloseEnterStep ==
    \E cageid \in DOMAIN fdtable, v \in VirtualFds :
        close_virtualfd_enter(cageid, v)

SetSpecificEnterStep ==
    \E cageid \in DOMAIN fdtable, v \in VirtualFds, e \in ReentrantEntries :
        get_specific_virtual_fd_enter(cageid, v, e.realfd, e.should_cloexec,
                                      e.optionalinfo)

ExecEnterStep == \E cageid \in DOMAIN fdtable : empty_fds_for_exec_enter(cageid)

ExitEnterStep ==
    \E cageid \in DOMAIN fdtable : remove_cage_from_fdtable_enter(cageid)

(***************************************************************************)
(* SpecReentrant: one cage, handlers registered at will, and the calls     *)
(* that invoke them taken step by step.  A thread that can take a step     *)
(* takes it.                                                               *)
(***************************************************************************)
NextReentrant ==
    \/ RegisterStep
    \/ AllocateStep(ReentrantEntries)
    \/ CloseEnterStep
    \/ SetSpecificEnterStep
    \/ ExecEnterStep
    \/ ExitEnterStep
    \/ ScanSlot
    \/ InvokeHandler
    \/ ResumeAfterHandler
    \/ ReturnStep

SpecReentrant == Init /\ [][NextReentrant]_vars /\ WF_vars(NextReentrant)

(***************************************************************************)
(* SpecLookup: the lifecycle operations and translate, over a real and an  *)
(* unreal record.                                                          *)
(***************************************************************************)
TranslateStep ==
    \E cageid \in DOMAIN fdtable, v \in VirtualFds :
        translate_virtual_fd(cageid, v)

LookupEntries ==
    { FDTableEntry(10, FALSE, 100), FDTableEntry(NO_REAL_FD, TRUE, 101) }

NextLookup ==
    \/ AllocateStep(LookupEntries)
    \/ SetSpecificStep(LookupEntries, VirtualFds)
    \/ CloseStep
    \/ ForkStep
    \/ ExitStep
    \/ ExecStep
    \/ InitCageStep
    \/ TranslateStep

SpecLookup == Init /\ [][NextLookup]_vars

(***************************************************************************)
(* SpecAccess: the field accessors among allocate, set_specific and close  *)
(* on one cage.  SpecFork: two cages, one forked from the other, and the   *)
(* calls that change a cage's slots.                                       *)
(***************************************************************************)
AuxValues == {500}

SetCloexecStep(flags) ==
    \E cageid \in DOMAIN fdtable, v \in VirtualFds, is_cloexec \in flags :
        set_cloexec(cageid, v, is_cloexec)

GetOptionalinfoStep ==
    \E cageid \in DOMAIN fdtable, v \in VirtualFds :
        get_optionalinfo(cageid, v)

SetOptionalinfoStep ==
    \E cageid \in DOMAIN fdtable, v \in VirtualFds, x \in AuxValues :
        set_optionalinfo(cageid, v, x)

AccessEntries == { FDTableEntry(10, FALSE, 150) }

NextAccess ==
    \/ AllocateStep(AccessEntries)
    \/ SetSpecificStep(AccessEntries, VirtualFds)
    \/ CloseStep
    \/ SetCloexecStep(BOOLEAN)
    \/ GetOptionalinfoStep
    \/ SetOptionalinfoStep

SpecAccess == Init /\ [][NextAccess]_vars

NextFork ==
    \/ AllocateStep(AccessEntries)
    \/ SetSpecificStep(AccessEntries, VirtualFds)
    \/ CloseStep
    \/ ForkStep
    \/ ExecStep
    \/ SetCloexecStep({TRUE})
    \/ SetOptionalinfoStep

SpecFork == Init /\ [][NextFork]_vars

(***************************************************************************)
(* SpecPanics: a caller that may name any cage id, known or not.  Cages    *)
(* come and go through init, fork, allocate and exit; every call is also   *)
(* made on the cage ids the table does not know.  A call that panics ends  *)
(* the run.                                                                *)
(***************************************************************************)
PanicEntries == { FDTableEntry(10, TRUE, 100) }

AnyCageCallStep ==
    \E cageid \in CageIds, e \in PanicEntries :
        \/ get_unused_virtual_fd(cageid, e.realfd, e.should_cloexec,
                                 e.optionalinfo)
        \/ remove_cage_from_fdtable(cageid)
        \/ init_empty_cage(cageid)

UnknownCageCallStep ==
    \E cageid \in CageIds \ DOMAIN fdtable, v \in VirtualFds, e \in PanicEntries :
        \/ translate_virtual_fd(cageid, v)
        \/ get_specific_virtual_fd(cageid, v, e.realfd, e.should_cloexec,
                                   e.optionalinfo)
        \/ set_cloexec(cageid, v, FALSE)
        \/ get_optionalinfo(cageid, v)
        \/ set_optionalinfo(cageid, v, e.optionalinfo)
        \/ close_virtualfd(cageid, v)
        \/ empty_fds_for_exec(cageid)
        \/ (EpollEntriesLeft /\ epoll_create_helper(cageid, 50, FALSE))

AnyCageForkStep ==
    \E src \in CageIds, new \in CageIds : copy_fdtable_for_cage(src, new)

NextPanics ==
    \/ AnyCageCallStep
    \/ UnknownCageCallStep
    \/ AnyCageForkStep

SpecPanics == Init /\ [][NextPanics]_vars

(***************************************************************************)
(* Spawned threads.  The main thread fills the tables, then spawns the     *)
(* threads (lib.rs, multithreaded_test); each thread makes its calls one   *)
(* step at a time.  A step ends where the code takes or drops a DashMap    *)
(* guard or reads or writes REALFDCOUNT, so that the steps of two threads  *)
(* interleave as the locks allow.  CLOSEHANDLERTABLE is locked and dropped *)
(* within one step (the registered handlers here are the NULL_FUNC).       *)
(***************************************************************************)
MaxThreadCalls == 1

ShardIds == {0, 1}

\* The shard of a key depends on the RandomState hasher made with the map.
\* The names of the shards do not matter: TESTING_CAGEID's is called 0.
ShardMaps == {s \in [CageIds -> ShardIds] : s[TESTING_CAGEID] = 0}

Spawned == DOMAIN shards # {}

\* Thread t can take a write guard (get_mut, insert) on the shard of cage c.
WriteFree(t, c) ==
    \A u \in ThreadIds \ {t} :
        IF threads[u].guard = "none" THEN TRUE
        ELSE shards[threads[u].cageid] # shards[c]

\* Thread t can take a read guard (get) on the shard of cage c.
ReadFree(t, c) ==
    \A u \in ThreadIds \ {t} :
        IF threads[u].guard # "write" THEN TRUE
        ELSE shards[threads[u].cageid] # shards[c]

\* Thread t can start a call.
CanCall(t) ==
    /\ Spawned
    /\ threads[t].phase = "idle"
    /\ threads[t].calls < MaxThreadCalls

\* The record of a thread that starts a call.
Started(t, fn, phase, cageid, item, myentry, guard) ==
    [ThreadIdle EXCEPT !.fn = fn, !.phase = phase, !.cageid = cageid,
                       !.item = item, !.myentry = myentry, !.guard = guard,
                       !.calls = threads[t].calls + 1]

\* The record of a thread whose call returns r: every guard is dropped.
Returned(th, r) == [th EXCEPT !.phase = "idle", !.guard = "none", !.ret = r]

\* The record of a thread that panics: it unwinds, dropping its guards, and
\* makes no further call.
Unwound(th) == [th EXCEPT !.phase = "panicked", !.guard = "none", !.ret = Panicked]

\* The main thread spawns the threads (lib.rs, line 1078); which cages
\* share a shard is settled here, any way the hasher can have it.
spawn_threads ==
    /\ Running
    /\ ~Spawned
    /\ shards' \in ShardMaps
    /\ UNCHANGED <<fdtable, realfdcount, closehandlers, epolltable, op, ret, fired, frame, held, threads, highestneverusedfd>>

\* Every step of a spawned thread leaves these alone.
ThreadFrame == UNCHANGED <<closehandlers, epolltable, op, ret, fired, frame, held, shards, highestneverusedfd>>

\* close_virtualfd, lines 362-364: the assert and get_mut.
thread_close_virtualfd(t, cageid, virtfd) ==
    /\ CanCall(t)
    /\ WriteFree(t, cageid)
    /\ LET th == Started(t, "close_virtualfd", "check", cageid, virtfd, None, "write") IN
       threads' = [threads EXCEPT ![t] =
                      IF cageid \in DOMAIN fdtable THEN th ELSE Unwound(th)]
    /\ UNCHANGED <<fdtable, realfdcount>>
    /\ ThreadFrame

\* close_virtualfd, lines 367-377 and 383, and _decrement_realfd line 405:
\* the slot is tested; an unreal entry is handled and cleared, for a real
\* one the count is read.
thread_close_check(t) ==
    LET th == threads[t]
        slot == fdtable[th.cageid][th.item] IN
    /\ th.fn = "close_virtualfd"
    /\ th.phase = "check"
    /\ IF slot = None
       THEN /\ threads' = [threads EXCEPT ![t] = Returned(th, Err("EBADFD"))]
            /\ UNCHANGED fdtable
       ELSE IF slot[1].realfd = NO_REAL_FD
       THEN /\ threads' = [threads EXCEPT ![t] =
                   Returned([th EXCEPT !.fired = Append(@, HandlerCall("unreal", slot[1].optionalinfo))], Ok(0))]
            /\ fdtable' = [fdtable EXCEPT ![th.cageid][th.item] = None]
       ELSE IF slot[1].realfd \notin DOMAIN realfdcount
       THEN /\ threads' = [threads EXCEPT ![t] = Unwound(th)]
            /\ UNCHANGED fdtable
       ELSE /\ threads' = [threads EXCEPT ![t] =
                   [th EXCEPT !.phase = "handler",
                              !.therealfd = slot[1].realfd,
                              !.newcount = realfdcount[slot[1].realfd] - 1]]
            /\ UNCHANGED fdtable
    /\ UNCHANGED realfdcount
    /\ ThreadFrame

\* _decrement_realfd, lines 406-414: CLOSEHANDLERTABLE is locked, the
\* handler runs, a positive newcount is inserted, the mutex is dropped.
\* get_specific_virtual_fd then leaves its "if let" and drops its read
\* guard (line 181).
thread_decrement_realfd(t) ==
    LET th == threads[t] IN
    /\ th.phase = "handler"
    /\ realfdcount' =
           IF th.newcount > 0
           THEN (th.therealfd :> th.newcount) @@ realfdcount
           ELSE realfdcount
    /\ threads' = [threads EXCEPT ![t] =
           [th EXCEPT !.fired = Append(@, HandlerCall(
                          IF th.newcount > 0 THEN "intermediate" ELSE "last",
                          th.therealfd)),
                      !.phase = IF th.fn = "close_virtualfd" THEN "clear" ELSE "store",
                      !.guard = IF th.fn = "close_virtualfd" THEN "write" ELSE "none"]]
    /\ UNCHANGED fdtable
    /\ ThreadFrame

\* close_virtualfd, lines 385-386: the slot is set to None, Ok(()).
thread_close_clear(t) ==
    LET th == threads[t] IN
    /\ th.fn = "close_virtualfd"
    /\ th.phase = "clear"
    /\ fdtable' = [fdtable EXCEPT ![th.cageid][th.item] = None]
    /\ threads' = [threads EXCEPT ![t] = Returned(th, Ok(0))]
    /\ UNCHANGED realfdcount
    /\ ThreadFrame

\* An allocate that picks its slot but leaves the store out.
thread_get_unused_virtual_fd_no_store(t, cageid, realfd, should_cloexec, optionalinfo) ==
    LET myentry == FDTableEntry(realfd, should_cloexec, optionalinfo)
        th == Started(t, "get_unused_virtual_fd", "increment", cageid, 0, Some(myentry), "write") IN
    /\ CanCall(t)
    /\ WriteFree(t, cageid)
    /\ cageid \in DOMAIN fdtable
    /\ threads' = [threads EXCEPT ![t] =
           LET fdcandidate == FirstUnused(fdtable[cageid], 0) IN
           IF fdcandidate < FD_PER_PROCESS_MAX
           THEN [th EXCEPT !.item = fdcandidate]
           ELSE Returned(th, Err("EMFILE"))]
    /\ UNCHANGED <<fdtable, realfdcount>>
    /\ ThreadFrame

\* get_unused_virtual_fd, lines 112-128: the assert, get_mut, the loop up
\* to the store of myentry in the first empty slot.
thread_get_unused_virtual_fd(t, cageid, realfd, should_cloexec, optionalinfo) ==
    LET myentry == FDTableEntry(realfd, should_cloexec, optionalinfo)
        th == Started(t, "get_unused_virtual_fd", "increment", cageid, 0, Some(myentry), "write") IN
    /\ CanCall(t)
    /\ WriteFree(t, cageid)
    /\ IF cageid \notin DOMAIN fdtable
       THEN /\ threads' = [threads EXCEPT ![t] = Unwound(th)]
            /\ UNCHANGED fdtable
       ELSE LET fdcandidate == FirstUnused(fdtable[cageid], 0) IN
            IF fdcandidate < FD_PER_PROCESS_MAX
            THEN /\ fdtable' = [fdtable EXCEPT ![cageid][fdcandidate] = Some(myentry)]
                 /\ threads' = [threads EXCEPT ![t] = [th EXCEPT !.item = fdcandidate]]
            ELSE /\ threads' = [threads EXCEPT ![t] = Returned(th, Err("EMFILE"))]
                 /\ UNCHANGED fdtable
    /\ UNCHANGED realfdcount
    /\ ThreadFrame

\* get_specific_virtual_fd, lines 151-169: the assert, the range test and
\* the making of myentry; no guard is kept.
thread_get_specific_virtual_fd(t, cageid, requested_virtualfd, realfd, should_cloexec, optionalinfo) ==
    LET myentry == FDTableEntry(realfd, should_cloexec, optionalinfo)
        th == Started(t, "get_specific_virtual_fd", "increment", cageid, requested_virtualfd, Some(myentry), "none") IN
    /\ CanCall(t)
    /\ ReadFree(t, cageid)
    /\ requested_virtualfd \in VirtualFds
    /\ threads' = [threads EXCEPT ![t] =
                      IF cageid \in DOMAIN fdtable THEN th ELSE Unwound(th)]
    /\ UNCHANGED <<fdtable, realfdcount>>
    /\ ThreadFrame

\* _increment_realfd, lines 418-426: NO_REAL_FD is skipped; get_mut adds
\* one to an entry that is there; for a missing entry get_mut gives None
\* and the insert of 1 is a second access of the map.
thread_increment_realfd(t) ==
    LET th == threads[t]
        realfd == th.myentry[1].realfd
        next == IF th.fn = "get_unused_virtual_fd"
                THEN Returned(th, Ok(th.item))
                ELSE [th EXCEPT !.phase = "lookup"] IN
    /\ th.phase = "increment"
    /\ IF realfd = NO_REAL_FD
       THEN /\ threads' = [threads EXCEPT ![t] = next]
            /\ UNCHANGED realfdcount
       ELSE IF realfd \in DOMAIN realfdcount
       THEN /\ threads' = [threads EXCEPT ![t] = next]
            /\ realfdcount' = [realfdcount EXCEPT ![realfd] = @ + 1]
       ELSE /\ threads' = [threads EXCEPT ![t] = [th EXCEPT !.phase = "insert_one"]]
            /\ UNCHANGED realfdcount
    /\ UNCHANGED fdtable
    /\ ThreadFrame

\* _increment_realfd, lines 427-428: REALFDCOUNT.insert(realfd, 1).
thread_increment_insert(t) ==
    LET th == threads[t] IN
    /\ th.phase = "insert_one"
    /\ realfdcount' = (th.myentry[1].realfd :> 1) @@ realfdcount
    /\ threads' = [threads EXCEPT ![t] =
                      IF th.fn = "get_unused_virtual_fd"
                      THEN Returned(th, Ok(th.item))
                      ELSE [th EXCEPT !.phase = "lookup"]]
    /\ UNCHANGED fdtable
    /\ ThreadFrame

\* get_specific_virtual_fd, lines 172-179: FDTABLE.get for the "if let";
\* an unreal occupant is handled, for a real one the count is read (line
\* 405) under the read guard.
thread_get_specific_lookup(t) ==
    LET th == threads[t] IN
    /\ th.fn = "get_specific_virtual_fd"
    /\ th.phase = "lookup"
    /\ ReadFree(t, th.cageid)
    /\ threads' = [threads EXCEPT ![t] =
          IF th.cageid \notin DOMAIN fdtable THEN Unwound(th)
          ELSE LET slot == fdtable[th.cageid][th.item] IN
               IF slot = None THEN [th EXCEPT !.phase = "store"]
               ELSE IF slot[1].realfd = NO_REAL_FD
               THEN [th EXCEPT !.phase = "store",
                               !.fired = Append(@, HandlerCall("unreal", slot[1].optionalinfo))]
               ELSE IF slot[1].realfd \notin DOMAIN realfdcount THEN Unwound(th)
               ELSE [th EXCEPT !.phase = "handler", !.guard = "read",
                               !.therealfd = slot[1].realfd,
                               !.newcount = realfdcount[slot[1].realfd] - 1]]
    /\ UNCHANGED <<fdtable, realfdcount>>
    /\ ThreadFrame

\* get_specific_virtual_fd, lines 184-185: get_mut and the store of myentry.
thread_get_specific_store(t) ==
    LET th == threads[t] IN
    /\ th.fn = "get_specific_virtual_fd"
    /\ th.phase = "store"
    /\ WriteFree(t, th.cageid)
    /\ IF th.cageid \in DOMAIN fdtable
       THEN /\ fdtable' = [fdtable EXCEPT ![th.cageid][th.item] = th.myentry]
            /\ threads' = [threads EXCEPT ![t] = Returned(th, Ok(0))]
       ELSE /\ threads' = [threads EXCEPT ![t] = Unwound(th)]
            /\ UNCHANGED fdtable
    /\ UNCHANGED realfdcount
    /\ ThreadFrame

\* copy_fdtable_for_cage, lines 238-244: the asserts, then hmcopy, a copy
\* of the source array taken under a guard that is dropped at once.
thread_copy_fdtable_for_cage(t, srccageid, newcageid) ==
    LET th == Started(t, "copy_fdtable_for_cage", "increment_copied", srccageid, 0, None, "none") IN
    /\ CanCall(t)
    /\ ReadFree(t, srccageid)
    /\ threads' = [threads EXCEPT ![t] =
          IF srccageid \notin DOMAIN fdtable \/ newcageid \in DOMAIN fdtable
          THEN Unwound(th)
          ELSE [th EXCEPT !.newcageid = newcageid,
                          !.hmcopy = Some(fdtable[srccageid])]]
    /\ UNCHANGED <<fdtable, realfdcount>>
    /\ ThreadFrame

\* copy_fdtable_for_cage, lines 247-254: a second FDTABLE.get and the loop
\* that counts what the source array holds now.
thread_copy_increment(t) ==
    LET th == threads[t] IN
    /\ th.fn = "copy_fdtable_for_cage"
    /\ th.phase = "increment_copied"
    /\ ReadFree(t, th.cageid)
    /\ IF th.cageid \in DOMAIN fdtable
       THEN /\ realfdcount' = IncrementCopied(realfdcount, fdtable[th.cageid], 0)
            /\ threads' = [threads EXCEPT ![t] = [th EXCEPT !.phase = "insert"]]
       ELSE /\ threads' = [threads EXCEPT ![t] = Unwound(th)]
            /\ UNCHANGED realfdcount
    /\ UNCHANGED fdtable
    /\ ThreadFrame

\* copy_fdtable_for_cage, lines 256-257: FDTABLE.insert(newcageid, hmcopy)
\* and the assert on what it replaced.
thread_copy_insert(t) ==
    LET th == threads[t] IN
    /\ th.fn = "copy_fdtable_for_cage"
    /\ th.phase = "insert"
    /\ WriteFree(t, th.newcageid)
    /\ fdtable' = (th.newcageid :> th.hmcopy[1]) @@ fdtable
    /\ threads' = [threads EXCEPT ![t] =
                      IF th.newcageid \in DOMAIN fdtable
                      THEN Unwound(th) ELSE Returned(th, Ok(0))]
    /\ UNCHANGED realfdcount
    /\ ThreadFrame

\* The main thread's calls before it spawns the threads.
ThreadEntries == { FDTableEntry(REALFD, FALSE, 10) }

SetupStep ==
    /\ ~Spawned
    /\ \/ AllocateStep(ThreadEntries)
       \/ ForkStep

SpawnStep == spawn_threads

ThreadCloseStep ==
    \E t \in ThreadIds, cageid \in DOMAIN fdtable, v \in VirtualFds :
        thread_close_virtualfd(t, cageid, v)

ThreadAllocateStep ==
    \E t \in ThreadIds, e \in ThreadEntries :
        thread_get_unused_virtual_fd(t, TESTING_CAGEID, e.realfd, e.should_cloexec, e.optionalinfo)

ThreadSetSpecificStep ==
    \E t \in ThreadIds, v \in VirtualFds, e \in ThreadEntries :
        thread_get_specific_virtual_fd(t, TESTING_CAGEID, v, e.realfd, e.should_cloexec, e.optionalinfo)

ThreadForkStep ==
    \E t \in ThreadIds, new \in CageIds \ {TESTING_CAGEID} :
        thread_copy_fdtable_for_cage(t, TESTING_CAGEID, new)

ThreadContinueStep ==
    \E t \in ThreadIds :
        \/ thread_close_check(t)
        \/ thread_decrement_realfd(t)
        \/ thread_close_clear(t)
        \/ thread_increment_realfd(t)
        \/ thread_increment_insert(t)
        \/ thread_get_specific_lookup(t)
        \/ thread_get_specific_store(t)
        \/ thread_copy_increment(t)
        \/ thread_copy_insert(t)

NextThreads ==
    \/ SetupStep
    \/ SpawnStep
    \/ ThreadCloseStep
    \/ ThreadAllocateStep
    \/ ThreadSetSpecificStep
    \/ ThreadForkStep
    \/ ThreadContinueStep

SpecThreads == Init /\ [][NextThreads]_vars

(***************************************************************************)
(* Spawned threads that set a field of a slot, and SpecCage: threads that  *)
(* work on the slots of one cage.                                          *)
(***************************************************************************)
\* set_cloexec, lines 193-198: the assert, then the is_none test under a
\* read guard that is dropped at the end of the "if" condition.
thread_set_cloexec(t, cageid, virtualfd, is_cloexec) ==
    LET th == [Started(t, "set_cloexec", "write_field", cageid, virtualfd, None, "none") EXCEPT !.is_cloexec = is_cloexec] IN
    /\ CanCall(t)
    /\ ReadFree(t, cageid)
    /\ virtualfd \in VirtualFds
    /\ threads' = [threads EXCEPT ![t] =
          IF cageid \notin DOMAIN fdtable THEN Unwound(th)
          ELSE IF fdtable[cageid][virtualfd] = None
          THEN Returned(th, Err("EBADFD"))
          ELSE th]
    /\ UNCHANGED <<fdtable, realfdcount>>
    /\ ThreadFrame

\* set_optionalinfo, lines 223-228: the assert, then the is_none test under
\* a read guard that is dropped at the end of the "if" condition.
thread_set_optionalinfo(t, cageid, virtualfd, optionalinfo) ==
    LET th == [Started(t, "set_optionalinfo", "write_field", cageid, virtualfd, None, "none") EXCEPT !.optionalinfo = optionalinfo] IN
    /\ CanCall(t)
    /\ ReadFree(t, cageid)
    /\ virtualfd \in VirtualFds
    /\ threads' = [threads EXCEPT ![t] =
          IF cageid \notin DOMAIN fdtable THEN Unwound(th)
          ELSE IF fdtable[cageid][virtualfd] = None
          THEN Returned(th, Err("EBADFD"))
          ELSE th]
    /\ UNCHANGED <<fdtable, realfdcount>>
    /\ ThreadFrame

\* set_cloexec line 200, set_optionalinfo line 231: get_mut, then
\* as_mut().unwrap() on the slot as it is now, and the store of the field.
\* unwrap() of a slot that is None by now panics.
thread_write_field(t) ==
    LET th == threads[t] IN
    /\ th.phase = "write_field"
    /\ WriteFree(t, th.cageid)
    /\ IF th.cageid \notin DOMAIN fdtable
       THEN /\ threads' = [threads EXCEPT ![t] = Unwound(th)]
            /\ UNCHANGED fdtable
       ELSE IF fdtable[th.cageid][th.item] = None
       THEN /\ threads' = [threads EXCEPT ![t] = Unwound(th)]
            /\ UNCHANGED fdtable
       ELSE /\ fdtable' =
                  IF th.fn = "set_cloexec"
                  THEN [fdtable EXCEPT ![th.cageid][th.item][1].should_cloexec = th.is_cloexec]
                  ELSE [fdtable EXCEPT ![th.cageid][th.item][1].optionalinfo = th.optionalinfo]
            /\ threads' = [threads EXCEPT ![t] = Returned(th, Ok(0))]
    /\ UNCHANGED realfdcount
    /\ ThreadFrame

\* The main thread's calls before it spawns the threads of SpecCage.
CageSetupStep ==
    /\ ~Spawned
    /\ AllocateStep(ThreadEntries)

CageCloseStep ==
    \E t \in ThreadIds, v \in VirtualFds :
        thread_close_virtualfd(t, TESTING_CAGEID, v)

ThreadSetCloexecStep ==
    \E t \in ThreadIds, v \in VirtualFds :
        thread_set_cloexec(t, TESTING_CAGEID, v, TRUE)

ThreadSetOptionalinfoStep ==
    \E t \in ThreadIds, v \in VirtualFds, optionalinfo \in AuxValues :
        thread_set_optionalinfo(t, TESTING_CAGEID, v, optionalinfo)

CageContinueStep ==
    \E t \in ThreadIds :
        \/ thread_close_check(t)
        \/ thread_decrement_realfd(t)
        \/ thread_close_clear(t)
        \/ thread_increment_realfd(t)
        \/ thread_increment_insert(t)
        \/ thread_get_specific_lookup(t)
        \/ thread_get_specific_store(t)
        \/ thread_write_field(t)

NextCage ==
    \/ CageSetupStep
    \/ SpawnStep
    \/ CageCloseStep
    \/ ThreadSetSpecificStep
    \/ ThreadSetCloexecStep
    \/ ThreadSetOptionalinfoStep
    \/ CageContinueStep

SpecCage == Init /\ [][NextCage]_vars

(***************************************************************************)
(* SpecWriters: threads that allocate in one cage (lib.rs,                 *)
(* multithreaded_write_test).                                              *)
(***************************************************************************)
WriterEntries == { FDTableEntry(10, TRUE, 100), FDTableEntry(REALFD, TRUE, 100) }

WriterSetupStep ==
    /\ ~Spawned
    /\ AllocateStep(WriterEntries)

WriterAllocateStep ==
    \E t \in ThreadIds, e \in WriterEntries :
        thread_get_unused_virtual_fd(t, TESTING_CAGEID, e.realfd, e.should_cloexec, e.optionalinfo)

WriterContinueStep ==
    \E t \in ThreadIds :
        \/ thread_increment_realfd(t)
        \/ thread_increment_insert(t)

NextWriters ==
    \/ WriterSetupStep
    \/ SpawnStep
    \/ WriterAllocateStep
    \/ WriterContinueStep

SpecWriters == Init /\ [][NextWriters]_vars

(***************************************************************************)
(* select.  An fd_set is the set of the positions of its bits; libc's      *)
(* FD_SETSIZE is 1024, as FD_PER_PROCESS_MAX is, and is scaled with it.    *)
(* FD_SET of a position outside the fd_set writes outside it: the build    *)
(* may crash there or go on.                                               *)
(***************************************************************************)
FD_SETSIZE == FD_PER_PROCESS_MAX

Max(a, b) == IF a >= b THEN a ELSE b

\* _do_bitmods, lines 479-506: the loop over the bits below nfds of one
\* mask.  acc holds thisfdset, the mappingtable shared by the three masks,
\* highestpos and unrealhashset; ok is FALSE after the return of EINVAL.
RECURSIVE _do_bitmods(_, _, _, _, _)
_do_bitmods(myfdarray, nfds, infdset, bit, acc) ==
    IF bit >= nfds THEN acc
    ELSE IF bit \notin infdset
    THEN _do_bitmods(myfdarray, nfds, infdset, bit + 1, acc)
    ELSE IF myfdarray[bit] = None THEN [acc EXCEPT !.ok = FALSE]
    ELSE LET entry == myfdarray[bit][1] IN
         IF entry.realfd = NO_REAL_FD
         THEN _do_bitmods(myfdarray, nfds, infdset, bit + 1,
                  [acc EXCEPT !.unrealhashset = @ \cup {<<bit, entry.optionalinfo>>}])
         ELSE _do_bitmods(myfdarray, nfds, infdset, bit + 1,
                  [acc EXCEPT !.mappingtable = (entry.realfd :> bit) @@ @,
                              !.thisfdset = @ \cup {entry.realfd},
                              !.outside = @ \/ entry.realfd >= FD_SETSIZE,
                              !.highestpos = Max(@, entry.realfd + 1)])

\* One turn of the loop of lines 538-555 over readbits, writebits and
\* exceptbits: a mask that is there goes through _do_bitmods, a null mask
\* gives an empty fd_set and no unreal items.
SelectOneMask(thefdvec, nfds, inset, sofar) ==
    IF ~sofar.ok THEN sofar
    ELSE IF inset = None
    THEN [sofar EXCEPT !.resultvec = Append(@, {}),
                       !.unrealarray = Append(@, {})]
    ELSE LET r == _do_bitmods(thefdvec, nfds, inset[1], 0,
                      [ok |-> TRUE, thisfdset |-> {},
                       mappingtable |-> sofar.mappingtable,
                       outside |-> sofar.outside,
                       highestpos |-> 0, unrealhashset |-> {}]) IN
         IF ~r.ok THEN [sofar EXCEPT !.ok = FALSE]
         ELSE [ok |-> TRUE,
               resultvec |-> Append(sofar.resultvec, r.thisfdset),
               unrealarray |-> Append(sofar.unrealarray, r.unrealhashset),
               mappingtable |-> r.mappingtable,
               outside |-> r.outside,
               newnfds |-> Max(r.highestpos, sofar.newnfds)]

\* The translation with the test of nfds off by one: nfds equal to
\* FD_PER_PROCESS_MAX passes the test and indexes past the end of the array.
RealBitmasksResultNfdsOff(table, cageid, nfds, readbits, writebits, exceptbits) ==
    IF nfds > FD_PER_PROCESS_MAX THEN Err("EINVAL")
    ELSE IF cageid \notin DOMAIN table \/ nfds = FD_PER_PROCESS_MAX THEN Panicked
    ELSE LET start == [ok |-> TRUE, resultvec |-> <<>>, unrealarray |-> <<>>,
                       mappingtable |-> EmptyMap, outside |-> FALSE,
                       newnfds |-> 0]
             r == SelectOneMask(table[cageid], nfds, exceptbits,
                    SelectOneMask(table[cageid], nfds, writebits,
                      SelectOneMask(table[cageid], nfds, readbits, start))) IN
         IF ~r.ok THEN Err("EINVAL")
         ELSE [tag |-> "Ok",
               val |-> [newnfds |-> r.newnfds, realbits |-> r.resultvec,
                        unrealarray |-> r.unrealarray,
                        mappingtable |-> r.mappingtable],
               outside |-> r.outside]

\* get_real_bitmasks_for_select, lines 517-558.  outside says that an
\* FD_SET fell outside its fd_set.
RealBitmasksResult(table, cageid, nfds, readbits, writebits, exceptbits) ==
    IF nfds >= FD_PER_PROCESS_MAX THEN Err("EINVAL")
    ELSE IF cageid \notin DOMAIN table THEN Panicked
    ELSE LET start == [ok |-> TRUE, resultvec |-> <<>>, unrealarray |-> <<>>,
                       mappingtable |-> EmptyMap, outside |-> FALSE,
                       newnfds |-> 0]
             r == SelectOneMask(table[cageid], nfds, exceptbits,
                    SelectOneMask(table[cageid], nfds, writebits,
                      SelectOneMask(table[cageid], nfds, readbits, start))) IN
         IF ~r.ok THEN Err("EINVAL")
         ELSE [tag |-> "Ok",
               val |-> [newnfds |-> r.newnfds, realbits |-> r.resultvec,
                        unrealarray |-> r.unrealarray,
                        mappingtable |-> r.mappingtable],
               outside |-> r.outside]

SelectCall(cageid, nfds, readbits, writebits, exceptbits) ==
    [name |-> "get_real_bitmasks_for_select", cageid |-> cageid,
     virtualfd |-> nfds, readbits |-> readbits, writebits |-> writebits,
     exceptbits |-> exceptbits]

get_real_bitmasks_for_select(cageid, nfds, readbits, writebits, exceptbits) ==
    /\ Running
    /\ LET r == RealBitmasksResult(fdtable, cageid, nfds, readbits, writebits, exceptbits) IN
       IF r.tag = "Ok"
       THEN \/ ret' = [tag |-> "Ok", val |-> r.val]
            \/ r.outside /\ ret' = Panicked
       ELSE ret' = r
    /\ op' = SelectCall(cageid, nfds, readbits, writebits, exceptbits)
    /\ fired' = <<>>
    /\ UNCHANGED <<fdtable, realfdcount, closehandlers, epolltable, frame, held, threads, shards, highestneverusedfd>>

\* The first loop of lines 584-590 over one mask of the kernel's reply:
\* acc holds retbits, flagsset, and ok, FALSE after mappingtable.get(&pos)
\* found nothing to unwrap.
RECURSIVE ReplyBits(_, _, _, _, _)
ReplyBits(nfds, inset, mappingtable, bit, acc) ==
    IF bit >= nfds THEN acc
    ELSE IF bit \notin inset
    THEN ReplyBits(nfds, inset, mappingtable, bit + 1, acc)
    ELSE IF bit \notin DOMAIN mappingtable THEN [acc EXCEPT !.ok = FALSE]
    ELSE IF mappingtable[bit] \in acc.retbits
    THEN ReplyBits(nfds, inset, mappingtable, bit + 1, acc)
    ELSE ReplyBits(nfds, inset, mappingtable, bit + 1,
             [acc EXCEPT !.flagsset = @ + 1,
                         !.retbits = @ \cup {mappingtable[bit]}])

\* One turn of the loop of lines 581-598: the bits of the reply, then the
\* virtual fds of the unreal set that are not yet set.
ReplyOneMask(nfds, inset, unrealset, mappingtable, sofar) ==
    IF ~sofar.ok THEN sofar
    ELSE LET r == ReplyBits(nfds, inset, mappingtable, 0,
                      [ok |-> TRUE, retbits |-> {}, flagsset |-> sofar.flagsset]) IN
         IF ~r.ok THEN [sofar EXCEPT !.ok = FALSE]
         ELSE [ok |-> TRUE,
               flagsset |-> r.flagsset + Cardinality(unrealset \ r.retbits),
               retvec |-> Append(sofar.retvec, r.retbits \cup unrealset)]

\* The reply translation without the second test of line 585: every bit of
\* the reply is counted, set already or not.
VirtualBitmasksResultCountsAll(nfds, readbits, writebits, exceptbits, unrealreadset, unrealwriteset, unrealexceptset, mappingtable) ==
    IF ~(nfds < FD_PER_PROCESS_MAX) THEN Panicked
    ELSE LET r == ReplyOneMask(nfds, exceptbits, unrealexceptset, mappingtable,
                    ReplyOneMask(nfds, writebits, unrealwriteset, mappingtable,
                      ReplyOneMask(nfds, readbits, unrealreadset, mappingtable,
                        [ok |-> TRUE, flagsset |-> 0, retvec |-> <<>>]))) IN
         IF ~r.ok THEN Panicked
         ELSE [tag |-> "Ok",
               val |-> [flagsset |-> Cardinality(readbits) + Cardinality(unrealreadset)
                                     + Cardinality(writebits) + Cardinality(unrealwriteset)
                                     + Cardinality(exceptbits) + Cardinality(unrealexceptset),
                        virtualbits |-> r.retvec]]

\* get_virtual_bitmasks_from_select_result, lines 571-600.
VirtualBitmasksResult(nfds, readbits, writebits, exceptbits, unrealreadset, unrealwriteset, unrealexceptset, mappingtable) ==
    IF ~(nfds < FD_PER_PROCESS_MAX) THEN Panicked
    ELSE LET r == ReplyOneMask(nfds, exceptbits, unrealexceptset, mappingtable,
                    ReplyOneMask(nfds, writebits, unrealwriteset, mappingtable,
                      ReplyOneMask(nfds, readbits, unrealreadset, mappingtable,
                        [ok |-> TRUE, flagsset |-> 0, retvec |-> <<>>]))) IN
         IF ~r.ok THEN Panicked
         ELSE [tag |-> "Ok",
               val |-> [flagsset |-> r.flagsset, virtualbits |-> r.retvec]]

\* The caller hands over the kernel's reply to the request it made last,
\* with the nfds and the mappingtable that request returned, and the unreal
\* descriptors it found ready itself.
get_virtual_bitmasks_from_select_result(readbits, writebits, exceptbits, unrealreadset, unrealwriteset, unrealexceptset) ==
    /\ Running
    /\ op.name = "get_real_bitmasks_for_select"
    /\ ret.tag = "Ok"
    /\ ret' = VirtualBitmasksResult(ret.val.newnfds, readbits, writebits, exceptbits,
                  unrealreadset, unrealwriteset, unrealexceptset, ret.val.mappingtable)
    /\ op' = [name |-> "get_virtual_bitmasks_from_select_result",
              cageid |-> op.cageid, virtualfd |-> ret.val.newnfds,
              request |-> op, translated |-> ret.val,
              reply |-> <<readbits, writebits, exceptbits>>,
              unrealsets |-> <<unrealreadset, unrealwriteset, unrealexceptset>>]
    /\ fired' = <<>>
    /\ UNCHANGED <<fdtable, realfdcount, closehandlers, epolltable, frame, held, threads, shards, highestneverusedfd>>

\* The descriptors of the select runs: a real fd the reply translation
\* takes, the highest real fd an fd_set holds, and an unreal descriptor.
SelectEntries == {FDTableEntry(0, FALSE, 10), FDTableEntry(FD_SETSIZE - 1, FALSE, 10), FDTableEntry(NO_REAL_FD, FALSE, 123)}

SelectMasks == {None} \cup {Some(m) : m \in SUBSET VirtualFds}

\* The caller's select(): the table is filled, the request is translated,
\* the kernel's select() runs, and its reply is translated back.
SelectSetupStep ==
    /\ op.name \notin {"get_real_bitmasks_for_select", "get_virtual_bitmasks_from_select_result"}
    /\ \/ \E v \in VirtualFds, e \in SelectEntries :
             /\ fdtable[TESTING_CAGEID][v] = None
             /\ get_specific_virtual_fd(TESTING_CAGEID, v, e.realfd, e.should_cloexec, e.optionalinfo)
       \/ (EpollEntriesLeft /\ epoll_create_helper(TESTING_CAGEID, 50, FALSE))

SelectRequestStep ==
    /\ op.name \notin {"get_real_bitmasks_for_select", "get_virtual_bitmasks_from_select_result"}
    /\ \E nfds \in 0..(FD_PER_PROCESS_MAX + 1), readbits \in SelectMasks, writebits \in SelectMasks, exceptbits \in {None, Some({}), Some(VirtualFds)} :
        get_real_bitmasks_for_select(TESTING_CAGEID, nfds, readbits, writebits, exceptbits)

SelectReplyStep ==
    /\ op.name = "get_real_bitmasks_for_select"
    /\ ret.tag = "Ok"
    /\ \E readbits \in SUBSET ret.val.realbits[1], writebits \in SUBSET ret.val.realbits[2], exceptbits \in SUBSET ret.val.realbits[3] :
        \E unrealreadset \in SUBSET VirtualFds, unrealwriteset \in SUBSET {u[1] : u \in ret.val.unrealarray[2]}, unrealexceptset \in SUBSET {u[1] : u \in ret.val.unrealarray[3]} :
          get_virtual_bitmasks_from_select_result(readbits, writebits, exceptbits, unrealreadset, unrealwriteset, unrealexceptset)

NextSelect == SelectSetupStep \/ SelectRequestStep \/ SelectReplyStep

SpecSelect == Init /\ [][NextSelect]_vars

(***************************************************************************)
(* poll.  Vectors are sequences; indexing thefdarray past its end panics.  *)
(***************************************************************************)
MaxPollLen == 2

\* The loop of lines 624-643 over virtualfds, from index i on.
RECURSIVE PollWalk(_, _, _, _)
PollWalk(thefdarray, virtualfds, i, acc) ==
    IF i > Len(virtualfds) THEN acc
    ELSE LET virtfd == virtualfds[i] IN
         IF virtfd \notin DOMAIN thefdarray THEN [acc EXCEPT !.ok = FALSE]
         ELSE IF thefdarray[virtfd] = None
         THEN PollWalk(thefdarray, virtualfds, i + 1,
                  [acc EXCEPT !.realvec = Append(@, INVALID_FD),
                              !.invalidvec = Append(@, virtfd)])
         ELSE LET entry == thefdarray[virtfd][1] IN
              IF entry.realfd = NO_REAL_FD
              THEN PollWalk(thefdarray, virtualfds, i + 1,
                       [acc EXCEPT !.realvec = Append(@, entry.realfd),
                                   !.unrealvec = Append(@, <<virtfd, entry.optionalinfo>>)])
              ELSE PollWalk(thefdarray, virtualfds, i + 1,
                       [acc EXCEPT !.realvec = Append(@, entry.realfd),
                                   !.mappingtable = (entry.realfd :> virtfd) @@ @])

\* convert_virtualfds_to_real, lines 612-646.
ConvertVirtualfdsResult(table, cageid, virtualfds) ==
    IF cageid \notin DOMAIN table THEN Panicked
    ELSE LET r == PollWalk(table[cageid], virtualfds, 1,
                      [ok |-> TRUE, realvec |-> <<>>, unrealvec |-> <<>>,
                       invalidvec |-> <<>>, mappingtable |-> EmptyMap]) IN
         IF ~r.ok THEN Panicked
         ELSE [tag |-> "Ok",
               val |-> [realvec |-> r.realvec, unrealvec |-> r.unrealvec,
                        invalidvec |-> r.invalidvec, mappingtable |-> r.mappingtable]]

convert_virtualfds_to_real(cageid, virtualfds) ==
    /\ Running
    /\ ret' = ConvertVirtualfdsResult(fdtable, cageid, virtualfds)
    /\ op' = [name |-> "convert_virtualfds_to_real", cageid |-> cageid,
              virtualfd |-> 0, virtualfds |-> virtualfds]
    /\ fired' = <<>>
    /\ UNCHANGED <<fdtable, realfdcount, closehandlers, epolltable, frame, held, threads, shards, highestneverusedfd>>

\* convert_realfds_back_to_virtual, lines 656-668: unwrap panics on a
\* realfd the mappingtable does not have.
ConvertRealfdsResult(realfds, mappingtable) ==
    IF \E i \in DOMAIN realfds : realfds[i] \notin DOMAIN mappingtable THEN Panicked
    ELSE [tag |-> "Ok", val |-> [i \in DOMAIN realfds |-> mappingtable[realfds[i]]]]

\* The caller converts back, with the mappingtable of the conversion it
\* made last, the real fds it polled.
convert_realfds_back_to_virtual(realfds) ==
    /\ Running
    /\ op.name = "convert_virtualfds_to_real"
    /\ ret.tag = "Ok"
    /\ ret' = ConvertRealfdsResult(realfds, ret.val.mappingtable)
    /\ op' = [name |-> "convert_realfds_back_to_virtual", cageid |-> op.cageid,
              virtualfd |-> 0, request |-> op, converted |-> ret.val,
              realfds |-> realfds]
    /\ fired' = <<>>
    /\ UNCHANGED <<fdtable, realfdcount, closehandlers, epolltable, frame, held, threads, shards, highestneverusedfd>>

\* The descriptors of check_poll_helpers.
PollEntries == {FDTableEntry(7, FALSE, 10), FDTableEntry(NO_REAL_FD, FALSE, 123), FDTableEntry(20, TRUE, 0)}

\* The vectors of at most MaxPollLen virtual fds, one past the end of the
\* array among them.
PollVectors == UNION {[1..n -> 0..FD_PER_PROCESS_MAX] : n \in 0..MaxPollLen}

\* The realfds without the entries the caller handles itself: the retain
\* of check_poll_helpers.
RECURSIVE Retained(_)
Retained(realfds) ==
    IF realfds = <<>> THEN <<>>
    ELSE IF Head(realfds) \in {NO_REAL_FD, INVALID_FD} THEN Retained(Tail(realfds))
    ELSE <<Head(realfds)>> \o Retained(Tail(realfds))

PollNames == {"convert_virtualfds_to_real", "convert_realfds_back_to_virtual"}

PollSetupStep ==
    /\ op.name \notin PollNames
    /\ \/ \E v \in VirtualFds, e \in PollEntries :
             /\ fdtable[TESTING_CAGEID][v] = None
             /\ get_specific_virtual_fd(TESTING_CAGEID, v, e.realfd, e.should_cloexec, e.optionalinfo)
       \/ (EpollEntriesLeft /\ epoll_create_helper(TESTING_CAGEID, 50, FALSE))

PollRequestStep ==
    /\ op.name \notin PollNames
    /\ \E virtualfds \in PollVectors : convert_virtualfds_to_real(TESTING_CAGEID, virtualfds)

PollReplyStep ==
    /\ op.name = "convert_virtualfds_to_real"
    /\ ret.tag = "Ok"
    /\ \E realfds \in {ret.val.realvec, Retained(ret.val.realvec)} \cup {<<ret.val.realvec[i]>> : i \in DOMAIN ret.val.realvec} :
          convert_realfds_back_to_virtual(realfds)

NextPoll == PollSetupStep \/ PollRequestStep \/ PollReplyStep

SpecPoll == Init /\ [][NextPoll]_vars

(***************************************************************************)
(* try_epoll_ctl and get_epoll_wait_data.  An epoll_event is its events    *)
(* word.                                                                   *)
(***************************************************************************)
EPOLL_CTL_ADD == 1
EPOLL_CTL_MOD == 2
EPOLL_CTL_DEL == 3

EPOLLIN == 1
EPOLLOUT == 4

\* The lookup of the epfd slot both functions start with (lines 794-806,
\* 868-879): the epoll entry number, or the error.
EpollEntryNum(table, cageid, epfd) ==
    IF epfd \notin DOMAIN table[cageid] THEN Panicked
    ELSE IF table[cageid][epfd] = None THEN Err("EBADF")
    ELSE IF table[cageid][epfd][1].realfd # EPOLLFD THEN Err("EINVAL")
    ELSE Ok(table[cageid][epfd][1].optionalinfo)

\* A match whose EPOLL_CTL_MOD adds the virtual fd that is not there.
EpollCtlMatchModAdds(eptentry, ctlop, virtfd, event) ==
    IF ctlop = EPOLL_CTL_ADD
    THEN IF virtfd \in DOMAIN eptentry THEN [err |-> "EEXIST", eptentry |-> eptentry]
         ELSE [err |-> "", eptentry |-> (virtfd :> event) @@ eptentry]
    ELSE IF ctlop = EPOLL_CTL_MOD
    THEN [err |-> "", eptentry |-> (virtfd :> event) @@ eptentry]
    ELSE IF ctlop = EPOLL_CTL_DEL
    THEN IF virtfd \notin DOMAIN eptentry THEN [err |-> "ENOENT", eptentry |-> eptentry]
         ELSE [err |-> "", eptentry |-> [k \in DOMAIN eptentry \ {virtfd} |-> eptentry[k]]]
    ELSE [err |-> "EINVAL", eptentry |-> eptentry]

\* The match of lines 833-857 on the map of one epoll entry.
EpollCtlMatch(eptentry, ctlop, virtfd, event) ==
    IF ctlop = EPOLL_CTL_ADD
    THEN IF virtfd \in DOMAIN eptentry THEN [err |-> "EEXIST", eptentry |-> eptentry]
         ELSE [err |-> "", eptentry |-> (virtfd :> event) @@ eptentry]
    ELSE IF ctlop = EPOLL_CTL_MOD
    THEN IF virtfd \notin DOMAIN eptentry THEN [err |-> "ENOENT", eptentry |-> eptentry]
         ELSE [err |-> "", eptentry |-> (virtfd :> event) @@ eptentry]
    ELSE IF ctlop = EPOLL_CTL_DEL
    THEN IF virtfd \notin DOMAIN eptentry THEN [err |-> "ENOENT", eptentry |-> eptentry]
         ELSE [err |-> "", eptentry |-> [k \in DOMAIN eptentry \ {virtfd} |-> eptentry[k]]]
    ELSE [err |-> "EINVAL", eptentry |-> eptentry]

\* A try_epoll_ctl that records every descriptor, real or not.
TryEpollCtlResultRecordsReal(table, ept, cageid, epfd, ctlop, virtfd, event) ==
    IF cageid \notin DOMAIN table THEN [epolltable |-> ept, ret |-> Panicked]
    ELSE IF epfd = virtfd THEN [epolltable |-> ept, ret |-> Err("EINVAL")]
    ELSE LET num == EpollEntryNum(table, cageid, epfd) IN
      IF num.tag # "Ok" THEN [epolltable |-> ept, ret |-> num]
      ELSE IF num.val \notin DOMAIN ept.realfdtable \/ num.val \notin DOMAIN ept.thisepolltable
      THEN [epolltable |-> ept, ret |-> Panicked]
      ELSE IF virtfd \notin DOMAIN table[cageid] THEN [epolltable |-> ept, ret |-> Panicked]
      ELSE IF table[cageid][virtfd] = None THEN [epolltable |-> ept, ret |-> Err("EBADF")]
      ELSE LET realepollfd == ept.realfdtable[num.val]
               m == EpollCtlMatch(ept.thisepolltable[num.val], ctlop, virtfd, event) IN
           IF m.err # "" THEN [epolltable |-> ept, ret |-> Err(m.err)]
           ELSE [epolltable |-> [ept EXCEPT !.thisepolltable[num.val] = m.eptentry],
                 ret |-> [tag |-> "Ok", val |-> <<realepollfd, table[cageid][virtfd][1].realfd>>]]

\* try_epoll_ctl, lines 785-859.
\* A try_epoll_ctl that looks at the slot of epfd before it compares epfd
\* with virtfd.
TryEpollCtlResultSlotBeforeSelf(table, ept, cageid, epfd, ctlop, virtfd, event) ==
    IF cageid \notin DOMAIN table THEN [epolltable |-> ept, ret |-> Panicked]
    ELSE LET num == EpollEntryNum(table, cageid, epfd) IN
      IF num.tag # "Ok" THEN [epolltable |-> ept, ret |-> num]
      ELSE IF epfd = virtfd THEN [epolltable |-> ept, ret |-> Err("EINVAL")]
      ELSE IF num.val \notin DOMAIN ept.realfdtable \/ num.val \notin DOMAIN ept.thisepolltable
      THEN [epolltable |-> ept, ret |-> Panicked]
      ELSE IF virtfd \notin DOMAIN table[cageid] THEN [epolltable |-> ept, ret |-> Panicked]
      ELSE IF table[cageid][virtfd] = None THEN [epolltable |-> ept, ret |-> Err("EBADF")]
      ELSE LET realepollfd == ept.realfdtable[num.val] IN
           IF table[cageid][virtfd][1].realfd # NO_REAL_FD
           THEN [epolltable |-> ept,
                 ret |-> [tag |-> "Ok", val |-> <<realepollfd, table[cageid][virtfd][1].realfd>>]]
           ELSE LET m == EpollCtlMatch(ept.thisepolltable[num.val], ctlop, virtfd, event) IN
                IF m.err # "" THEN [epolltable |-> ept, ret |-> Err(m.err)]
                ELSE [epolltable |-> [ept EXCEPT !.thisepolltable[num.val] = m.eptentry],
                      ret |-> [tag |-> "Ok", val |-> <<realepollfd, NO_REAL_FD>>]]

TryEpollCtlResult(table, ept, cageid, epfd, ctlop, virtfd, event) ==
    IF cageid \notin DOMAIN table THEN [epolltable |-> ept, ret |-> Panicked]
    ELSE IF epfd = virtfd THEN [epolltable |-> ept, ret |-> Err("EINVAL")]
    ELSE LET num == EpollEntryNum(table, cageid, epfd) IN
      IF num.tag # "Ok" THEN [epolltable |-> ept, ret |-> num]
      ELSE IF num.val \notin DOMAIN ept.realfdtable \/ num.val \notin DOMAIN ept.thisepolltable
      THEN [epolltable |-> ept, ret |-> Panicked]
      ELSE IF virtfd \notin DOMAIN table[cageid] THEN [epolltable |-> ept, ret |-> Panicked]
      ELSE IF table[cageid][virtfd] = None THEN [epolltable |-> ept, ret |-> Err("EBADF")]
      ELSE LET realepollfd == ept.realfdtable[num.val] IN
           IF table[cageid][virtfd][1].realfd # NO_REAL_FD
           THEN [epolltable |-> ept,
                 ret |-> [tag |-> "Ok", val |-> <<realepollfd, table[cageid][virtfd][1].realfd>>]]
           ELSE LET m == EpollCtlMatch(ept.thisepolltable[num.val], ctlop, virtfd, event) IN
                IF m.err # "" THEN [epolltable |-> ept, ret |-> Err(m.err)]
                ELSE [epolltable |-> [ept EXCEPT !.thisepolltable[num.val] = m.eptentry],
                      ret |-> [tag |-> "Ok", val |-> <<realepollfd, NO_REAL_FD>>]]

try_epoll_ctl(cageid, epfd, ctlop, virtfd, event) ==
    /\ Running
    /\ LET r == TryEpollCtlResult(fdtable, epolltable, cageid, epfd, ctlop, virtfd, event) IN
         /\ epolltable' = r.epolltable
         /\ ret' = r.ret
    /\ op' = [name |-> "try_epoll_ctl", cageid |-> cageid, virtualfd |-> virtfd,
              epfd |-> epfd, ctlop |-> ctlop, event |-> event]
    /\ fired' = <<>>
    /\ UNCHANGED <<fdtable, realfdcount, closehandlers, frame, held, threads, shards, highestneverusedfd>>

\* get_epoll_wait_data, lines 863-882.
EpollWaitDataResult(table, ept, cageid, epfd) ==
    IF cageid \notin DOMAIN table THEN Panicked
    ELSE LET num == EpollEntryNum(table, cageid, epfd) IN
      IF num.tag # "Ok" THEN num
      ELSE IF num.val \notin DOMAIN ept.realfdtable \/ num.val \notin DOMAIN ept.thisepolltable
      THEN Panicked
      ELSE [tag |-> "Ok", val |-> <<ept.realfdtable[num.val], ept.thisepolltable[num.val]>>]

get_epoll_wait_data(cageid, epfd) ==
    /\ Running
    /\ ret' = EpollWaitDataResult(fdtable, epolltable, cageid, epfd)
    /\ op' = [name |-> "get_epoll_wait_data", cageid |-> cageid, virtualfd |-> epfd]
    /\ fired' = <<>>
    /\ UNCHANGED <<fdtable, realfdcount, closehandlers, epolltable, frame, held, threads, shards, highestneverusedfd>>

\* The descriptors, events and kernel epollfds of check_epoll_helpers, and
\* an op that is none of the three.
EpollEntries == {FDTableEntry(NO_REAL_FD, FALSE, 123), FDTableEntry(20, TRUE, 0)}

EpollEvents == {EPOLLIN + EPOLLOUT, EPOLLIN}

EpollRealFds == RealEpollFds \cup {100}

EpollCtlOps == {EPOLL_CTL_ADD, EPOLL_CTL_MOD, EPOLL_CTL_DEL, 0}

EpollSetupStep ==
    \/ \E v \in VirtualFds, e \in EpollEntries :
          /\ fdtable[TESTING_CAGEID][v] = None
          /\ get_specific_virtual_fd(TESTING_CAGEID, v, e.realfd, e.should_cloexec, e.optionalinfo)
    \/ \E realfd \in EpollRealFds :
          EpollEntriesLeft /\ epoll_create_helper(TESTING_CAGEID, realfd, FALSE)

EpollCtlStep ==
    \E epfd \in 0..FD_PER_PROCESS_MAX, ctlop \in EpollCtlOps, virtfd \in 0..FD_PER_PROCESS_MAX, event \in EpollEvents :
        try_epoll_ctl(TESTING_CAGEID, epfd, ctlop, virtfd, event)

EpollWaitStep == \E epfd \in 0..FD_PER_PROCESS_MAX : get_epoll_wait_data(TESTING_CAGEID, epfd)

NextEpoll == EpollSetupStep \/ EpollCtlStep \/ EpollWaitStep

SpecEpoll == Init /\ [][NextEpoll]_vars

(***************************************************************************)
(* SpecEpollLife: the epoll calls of SpecEpoll with close among them.      *)
(***************************************************************************)
NextEpollLife == NextEpoll \/ CloseStep

SpecEpollLife == Init /\ [][NextEpollLife]_vars

(***************************************************************************)
(* muthashmaxglobal.rs: the implementation that keeps, for each cage, the  *)
(* HashMap thisfdtable and the counter highestneverusedfd.  A key that is  *)
(* absent from the HashMap is a slot holding None (or no slot at all, for  *)
(* the key FD_PER_PROCESS_MAX that get_specific_virtual_fd accepts).       *)
(***************************************************************************)
\* HashMap::get
MapGet(thisfdtable, key) ==
    IF key \in DOMAIN thisfdtable THEN thisfdtable[key] ELSE None

\* HashMap::insert
MapInsert(thisfdtable, key, myentry) ==
    (key :> Some(myentry)) @@ thisfdtable

\* HashMap::remove
MapRemove(thisfdtable, key) ==
    IF key \in DOMAIN thisfdtable THEN [thisfdtable EXCEPT ![key] = None]
    ELSE thisfdtable

\* get_unused_virtual_fd of muthashmaxglobal.rs: the entry goes to
\* highestneverusedfd while that is below FD_PER_PROCESS_MAX, without a look
\* at what the HashMap holds there; the scan for a vacant key only after.
MaxUnusedVirtualFdResult(table, highest, count, cageid, myentry) ==
    IF cageid \notin DOMAIN table
    THEN [fdtable |-> table, highestneverusedfd |-> highest,
          realfdcount |-> count, ret |-> Panicked]
    ELSE IF highest[cageid] < FD_PER_PROCESS_MAX
    THEN [fdtable |-> [table EXCEPT
                         ![cageid] = MapInsert(@, highest[cageid], myentry)],
          highestneverusedfd |-> [highest EXCEPT ![cageid] = @ + 1],
          realfdcount |-> _increment_realfd(count, myentry.realfd),
          ret |-> Ok(highest[cageid])]
    ELSE LET fdcandidate == FirstUnused(table[cageid], 0) IN
         IF fdcandidate < FD_PER_PROCESS_MAX
         THEN [fdtable |-> [table EXCEPT
                              ![cageid] = MapInsert(@, fdcandidate, myentry)],
               highestneverusedfd |-> highest,
               realfdcount |-> _increment_realfd(count, myentry.realfd),
               ret |-> Ok(fdcandidate)]
         ELSE [fdtable |-> table, highestneverusedfd |-> highest,
               realfdcount |-> count, ret |-> Err("EMFILE")]

muthashmax_get_unused_virtual_fd(cageid, realfd, should_cloexec, optionalinfo) ==
    /\ Running
    /\ LET r == MaxUnusedVirtualFdResult(fdtable, highestneverusedfd,
                    realfdcount, cageid,
                    FDTableEntry(realfd, should_cloexec, optionalinfo)) IN
         /\ fdtable' = r.fdtable
         /\ highestneverusedfd' = r.highestneverusedfd
         /\ realfdcount' = r.realfdcount
         /\ ret' = r.ret
    /\ fired' = <<>>
    /\ op' = Call("muthashmax_get_unused_virtual_fd", cageid, 0)
    /\ UNCHANGED <<closehandlers, epolltable, frame, held, threads, shards>>

\* get_specific_virtual_fd of muthashmaxglobal.rs: the bound check, the
\* increment, the removal of the occupant, the insert.  The counter
\* highestneverusedfd is not touched.
MaxSpecificVirtualFdResult(table, count, cageid, requested_virtualfd, myentry) ==
    IF cageid \notin DOMAIN table
    THEN [fdtable |-> table, realfdcount |-> count, fired |-> <<>>,
          ret |-> Panicked]
    ELSE IF requested_virtualfd > FD_PER_PROCESS_MAX
    THEN [fdtable |-> table, realfdcount |-> count, fired |-> <<>>,
          ret |-> Err("EBADF")]
    ELSE LET c == SpecificFdCounts(count,
                      MapGet(table[cageid], requested_virtualfd),
                      myentry.realfd) IN
         IF c.panicked
         THEN [fdtable |-> table, realfdcount |-> c.count, fired |-> c.fired,
               ret |-> Panicked]
         ELSE [fdtable |-> [table EXCEPT ![cageid] =
                              MapInsert(@, requested_virtualfd, myentry)],
               realfdcount |-> c.count, fired |-> c.fired, ret |-> Ok(0)]

muthashmax_get_specific_virtual_fd(cageid, requested_virtualfd, realfd, should_cloexec, optionalinfo) ==
    /\ Running
    /\ LET r == MaxSpecificVirtualFdResult(fdtable, realfdcount, cageid,
                    requested_virtualfd,
                    FDTableEntry(realfd, should_cloexec, optionalinfo)) IN
         /\ fdtable' = r.fdtable
         /\ realfdcount' = r.realfdcount
         /\ fired' = r.fired
         /\ ret' = r.ret
    /\ op' = Call("muthashmax_get_specific_virtual_fd", cageid,
                  requested_virtualfd)
    /\ UNCHANGED <<closehandlers, epolltable, frame, held, threads, shards, highestneverusedfd>>

\* close_virtualfd of muthashmaxglobal.rs: the entry is removed first, then
\* the handler runs.
MaxCloseVirtualFdResult(table, count, cageid, virtfd) ==
    IF cageid \notin DOMAIN table
    THEN [fdtable |-> table, realfdcount |-> count, fired |-> <<>>,
          ret |-> Panicked]
    ELSE IF MapGet(table[cageid], virtfd) = None
    THEN [fdtable |-> table, realfdcount |-> count, fired |-> <<>>,
          ret |-> Err("EBADFD")]
    ELSE LET c == CloseEntry(count, MapGet(table[cageid], virtfd)[1])
             removed == [table EXCEPT ![cageid] = MapRemove(@, virtfd)] IN
         [fdtable |-> removed, realfdcount |-> c.count, fired |-> c.fired,
          ret |-> IF c.panicked THEN Panicked ELSE Ok(0)]

muthashmax_close_virtualfd(cageid, virtfd) ==
    /\ Running
    /\ LET r == MaxCloseVirtualFdResult(fdtable, realfdcount, cageid, virtfd) IN
         /\ fdtable' = r.fdtable
         /\ realfdcount' = r.realfdcount
         /\ fired' = r.fired
         /\ ret' = r.ret
    /\ op' = Call("muthashmax_close_virtualfd", cageid, virtfd)
    /\ UNCHANGED <<closehandlers, epolltable, frame, held, threads, shards, highestneverusedfd>>

\* The records the calls are made with: a real fd, and one with no real fd.
MaxEntries == {FDTableEntry(10, FALSE, 0), FDTableEntry(NO_REAL_FD, FALSE, 123)}

\* The cage the test suite starts with, and one the table does not know.
MaxAllocateStep ==
    \E cageid \in CageIds, e \in MaxEntries :
        muthashmax_get_unused_virtual_fd(cageid, e.realfd, e.should_cloexec,
                                         e.optionalinfo)

MaxSetSpecificStep ==
    \E cageid \in DOMAIN fdtable, v \in 0 .. (FD_PER_PROCESS_MAX + 1),
       e \in MaxEntries :
        muthashmax_get_specific_virtual_fd(cageid, v, e.realfd,
                                           e.should_cloexec, e.optionalinfo)

MaxCloseStep ==
    \E cageid \in DOMAIN fdtable, v \in 0 .. FD_PER_PROCESS_MAX :
        muthashmax_close_virtualfd(cageid, v)

NextMax == MaxAllocateStep \/ MaxSetSpecificStep \/ MaxCloseStep

SpecMax == Init /\ [][NextMax]_vars

(***************************************************************************)
(* SpecEpollCreate: epollfds made one after another in a cage whose slots  *)
(* fill up and empty again, up to MaxEpollCreates of them.                 *)
(***************************************************************************)
MaxEpollCreates == MaxEpollEntries + 1

EpollCreateManyStep ==
    \E cageid \in DOMAIN fdtable, realfd \in EpollRealFds,
       should_cloexec \in BOOLEAN :
        /\ epolltable.highestneverusedentry < MaxEpollCreates
        /\ epoll_create_helper(cageid, realfd, should_cloexec)

NextEpollCreate ==
    \/ EpollCreateManyStep
    \/ SetSpecificStep(EpollEntries, VirtualFds)
    \/ CloseStep

SpecEpollCreate == Init /\ [][NextEpollCreate]_vars

(***************************************************************************)
(* refresh, the helper the tests call first, also after a test that        *)
(* panicked.  It clears FDTABLE, inserts the testing cage and sets the     *)
(* three handlers to NULL_FUNC; REALFDCOUNT and EPOLLTABLE are not         *)
(* mentioned in it.                                                        *)
(***************************************************************************)
refresh ==
    /\ frame = Idle
    /\ fdtable' = (TESTING_CAGEID :> EmptyArray)
    /\ closehandlers' = NullHandlers
    /\ ret' = Ok(0)
    /\ fired' = <<>>
    /\ op' = Call("refresh", TESTING_CAGEID, 0)
    /\ UNCHANGED <<realfdcount, epolltable, frame, held, threads, shards, highestneverusedfd>>

\* REALFD of test_dup_close, and a record with no real fd.
RefreshEntries == {FDTableEntry(REALFD, FALSE, 10), FDTableEntry(NO_REAL_FD, FALSE, 10)}

\* A call on a cage the table does not know panics; the next test starts
\* with refresh all the same.
RefreshAllocateStep ==
    \E cageid \in CageIds, e \in RefreshEntries :
        get_unused_virtual_fd(cageid, e.realfd, e.should_cloexec,
                              e.optionalinfo)

\* The runs stop refreshing once a count that refresh left behind has
\* outgrown the cage.
RefreshStep ==
    /\ \A r \in DOMAIN realfdcount : realfdcount[r] <= FD_PER_PROCESS_MAX
    /\ refresh

NextRefresh ==
    \/ RefreshStep
    \/ RefreshAllocateStep
    \/ CloseStep
    \/ RegisterStep
    \/ EpollCreateStep

SpecRefresh == Init /\ [][NextRefresh]_vars

(***************************************************************************)
(* The locks alone.  Each public call is the sequence of lock and unlock   *)
(* steps its code takes, in the code's order; where the sequence depends   *)
(* on what a slot or the counter holds, every sequence the code can take   *)
(* is there.  The handlers are functions that take no lock.  A DashMap     *)
(* guard locks the shard of its key: get and contains_key for reading,     *)
(* get_mut, insert and remove for writing.  REALFDCOUNT is taken as one    *)
(* shard, which lets its users wait for each other as much as they can.    *)
(***************************************************************************)
LockStep(lock, mode) == [do |-> "lock", lock |-> lock, mode |-> mode]

UnlockStep(lock) == [do |-> "unlock", lock |-> lock, mode |-> "none"]

FDTABLEShard(cageid) == <<"FDTABLE", shards[cageid]>>

REALFDCOUNTShard == <<"REALFDCOUNT", 0>>

CLOSEHANDLERTABLELock == <<"CLOSEHANDLERTABLE", 0>>

EPOLLTABLELock == <<"EPOLLTABLE", 0>>

\* A guard that lives while inner runs.
Guarded(lock, mode, inner) ==
    <<LockStep(lock, mode)>> \o inner \o <<UnlockStep(lock)>>

\* assert!(FDTABLE.contains_key(&cageid)), the first line of the calls.
ContainsKeyLocks(cageid) == Guarded(FDTABLEShard(cageid), "read", <<>>)

\* _increment_realfd, lines 419-432: nothing for NO_REAL_FD; get_mut; or
\* get_mut that finds nothing and then insert.
IncrementLocks ==
    { <<>>,
      Guarded(REALFDCOUNTShard, "write", <<>>),
      Guarded(REALFDCOUNTShard, "write", <<>>)
          \o Guarded(REALFDCOUNTShard, "write", <<>>) }

\* _decrement_realfd, lines 401-415: get (dropped at the end of line 405),
\* then CLOSEHANDLERTABLE.lock(), the handler, and, after the intermediate
\* handler, REALFDCOUNT.insert with CLOSEHANDLERTABLE still locked.
DecrementLocks ==
    { Guarded(REALFDCOUNTShard, "read", <<>>)
          \o Guarded(CLOSEHANDLERTABLELock, "write", written) :
        written \in {<<>>, Guarded(REALFDCOUNTShard, "write", <<>>)} }

\* What a call does about one slot: nothing, the unreal handler under
\* CLOSEHANDLERTABLE, or _decrement_realfd.
SlotCloseLocks ==
    {<<>>, Guarded(CLOSEHANDLERTABLELock, "write", <<>>)} \cup DecrementLocks

\* The loops over the slots of a cage take the same locks in every round;
\* the runs follow this many rounds of them.
MaxLoopRounds == 1

\* A loop of n rounds, each round one of bodies.
RECURSIVE LoopLocks(_, _)
LoopLocks(bodies, n) ==
    IF n = 0 THEN {<<>>}
    ELSE {b \o rest : b \in bodies, rest \in LoopLocks(bodies, n - 1)}

\* get_unused_virtual_fd, lines 105-137: get_mut held to the return.
AllocateLocks(cageid) ==
    { ContainsKeyLocks(cageid) \o Guarded(FDTABLEShard(cageid), "write", i) :
        i \in IncrementLocks }

\* get_specific_virtual_fd, lines 142-186: the early EBADF; or the
\* increment, the get of line 172 held over the if-let, the get_mut of 184.
SetSpecificLocks(cageid) ==
    {ContainsKeyLocks(cageid)} \cup
    { ContainsKeyLocks(cageid) \o i
          \o Guarded(FDTABLEShard(cageid), "read", x)
          \o Guarded(FDTABLEShard(cageid), "write", <<>>) :
        i \in IncrementLocks, x \in SlotCloseLocks }

\* close_virtualfd, lines 360-389: get_mut held to the return.
CloseLocks(cageid) ==
    { ContainsKeyLocks(cageid) \o Guarded(FDTABLEShard(cageid), "write", x) :
        x \in SlotCloseLocks }

\* copy_fdtable_for_cage, lines 236-260: the two asserts, the get of line
\* 244, the get of line 247 held over the loop, the insert of line 256.
ForkLocks(srccageid, newcageid) ==
    { ContainsKeyLocks(srccageid) \o ContainsKeyLocks(newcageid)
          \o Guarded(FDTABLEShard(srccageid), "read", <<>>)
          \o Guarded(FDTABLEShard(srccageid), "read", l)
          \o Guarded(FDTABLEShard(newcageid), "write", <<>>) :
        l \in LoopLocks(IncrementLocks, MaxLoopRounds) }

\* empty_fds_for_exec, lines 295-314: get_mut held over the loop.
ExecLocks(cageid) ==
    { ContainsKeyLocks(cageid) \o Guarded(FDTABLEShard(cageid), "write", l) :
        l \in LoopLocks(SlotCloseLocks, MaxLoopRounds) }

\* remove_cage_from_fdtable, lines 265-290: get held over the loop and
\* dropped, then remove.
ExitLocks(cageid) ==
    { ContainsKeyLocks(cageid) \o Guarded(FDTABLEShard(cageid), "read", l)
          \o Guarded(FDTABLEShard(cageid), "write", <<>>) :
        l \in LoopLocks(SlotCloseLocks, MaxLoopRounds) }

\* register_close_handlers, lines 393-399.
RegisterLocks == {Guarded(CLOSEHANDLERTABLELock, "write", <<>>)}

\* epoll_create_helper, lines 756-772: EPOLLTABLE locked over the whole
\* call, get_unused_virtual_fd inside.
EpollCreateLocks(cageid) ==
    { Guarded(EPOLLTABLELock, "write", a) : a \in AllocateLocks(cageid) }

\* A try_epoll_ctl that still has its guard of line 794 when it locks
\* EPOLLTABLE.
TryEpollCtlLocksKeepsGuard(cageid) ==
    { ContainsKeyLocks(cageid),
      ContainsKeyLocks(cageid) \o Guarded(FDTABLEShard(cageid), "read", <<>>),
      ContainsKeyLocks(cageid)
          \o Guarded(FDTABLEShard(cageid), "read",
                     Guarded(EPOLLTABLELock, "write", <<>>)) }

\* try_epoll_ctl, lines 785-859: the return of line 790; the get of line
\* 794, dropped at the end of the match, with its two returns; then
\* EPOLLTABLE locked to the return and the get of line 815 inside.
TryEpollCtlLocks(cageid) ==
    { ContainsKeyLocks(cageid),
      ContainsKeyLocks(cageid) \o Guarded(FDTABLEShard(cageid), "read", <<>>),
      ContainsKeyLocks(cageid) \o Guarded(FDTABLEShard(cageid), "read", <<>>)
          \o Guarded(EPOLLTABLELock, "write",
                     Guarded(FDTABLEShard(cageid), "read", <<>>)) }

\* get_epoll_wait_data, lines 863-884.
EpollWaitLocks(cageid) ==
    { ContainsKeyLocks(cageid) \o Guarded(FDTABLEShard(cageid), "read", <<>>),
      ContainsKeyLocks(cageid) \o Guarded(FDTABLEShard(cageid), "read", <<>>)
          \o Guarded(EPOLLTABLELock, "write", <<>>) }

\* Thread t makes a call that takes one of scripts.  What is left of the
\* call is in its script; which call it was is not kept.
LockingCall(t, fn, cageid, scripts) ==
    /\ CanCall(t)
    /\ \E s \in scripts :
         threads' = [threads EXCEPT ![t] =
                        [ThreadIdle EXCEPT !.phase = "locks", !.script = s,
                                           !.calls = threads[t].calls + 1]]
    /\ UNCHANGED <<fdtable, realfdcount, highestneverusedfd>>
    /\ ThreadFrame

locking_get_unused_virtual_fd(t, cageid) ==
    LockingCall(t, "get_unused_virtual_fd", cageid, AllocateLocks(cageid))

locking_get_specific_virtual_fd(t, cageid) ==
    LockingCall(t, "get_specific_virtual_fd", cageid, SetSpecificLocks(cageid))

locking_close_virtualfd(t, cageid) ==
    LockingCall(t, "close_virtualfd", cageid, CloseLocks(cageid))

locking_copy_fdtable_for_cage(t, srccageid, newcageid) ==
    LockingCall(t, "copy_fdtable_for_cage", srccageid,
                ForkLocks(srccageid, newcageid))

locking_empty_fds_for_exec(t, cageid) ==
    LockingCall(t, "empty_fds_for_exec", cageid, ExecLocks(cageid))

locking_remove_cage_from_fdtable(t, cageid) ==
    LockingCall(t, "remove_cage_from_fdtable", cageid, ExitLocks(cageid))

locking_register_close_handlers(t) ==
    LockingCall(t, "register_close_handlers", 0, RegisterLocks)

locking_epoll_create_helper(t, cageid) ==
    LockingCall(t, "epoll_create_helper", cageid, EpollCreateLocks(cageid))

locking_try_epoll_ctl(t, cageid) ==
    LockingCall(t, "try_epoll_ctl", cageid, TryEpollCtlLocks(cageid))

locking_get_epoll_wait_data(t, cageid) ==
    LockingCall(t, "get_epoll_wait_data", cageid, EpollWaitLocks(cageid))

\* Can thread t have lock in mode now?  A write guard and a Mutex exclude
\* every other holder, a read guard excludes a writer; a thread that asks
\* for a lock it holds waits for itself.
LockFree(t, lock, mode) ==
    /\ \A h \in threads[t].locks : h.lock # lock
    /\ \A u \in ThreadIds \ {t} : \A h \in threads[u].locks :
          h.lock = lock => (mode = "read" /\ h.mode = "read")

\* The next step of t's call is a lock, and the lock can be had.
thread_lock(t) ==
    /\ threads[t].phase = "locks"
    /\ threads[t].script # <<>>
    /\ LET step == Head(threads[t].script) IN
         /\ step.do = "lock"
         /\ LockFree(t, step.lock, step.mode)
         /\ threads' = [threads EXCEPT
                           ![t].script = Tail(@),
                           ![t].locks = @ \cup {[lock |-> step.lock,
                                                 mode |-> step.mode]}]
    /\ UNCHANGED <<fdtable, realfdcount, highestneverusedfd>>
    /\ ThreadFrame

\* The next step of t's call drops a guard.
thread_unlock(t) ==
    /\ threads[t].phase = "locks"
    /\ threads[t].script # <<>>
    /\ LET step == Head(threads[t].script) IN
         /\ step.do = "unlock"
         /\ threads' = [threads EXCEPT
                           ![t].script = Tail(@),
                           ![t].locks = {h \in @ : h.lock # step.lock}]
    /\ UNCHANGED <<fdtable, realfdcount, highestneverusedfd>>
    /\ ThreadFrame

\* The call of t has taken all its steps and returns.
thread_return(t) ==
    /\ threads[t].phase = "locks"
    /\ threads[t].script = <<>>
    /\ threads' = [threads EXCEPT ![t].phase = "idle"]
    /\ UNCHANGED <<fdtable, realfdcount, highestneverusedfd>>
    /\ ThreadFrame

LockingAllocateStep ==
    \E t \in ThreadIds, cageid \in CageIds : locking_get_unused_virtual_fd(t, cageid)

LockingSetSpecificStep ==
    \E t \in ThreadIds, cageid \in CageIds : locking_get_specific_virtual_fd(t, cageid)

LockingCloseStep ==
    \E t \in ThreadIds, cageid \in CageIds : locking_close_virtualfd(t, cageid)

LockingForkStep ==
    \E t \in ThreadIds, src \in CageIds :
        \E new \in CageIds \ {src} : locking_copy_fdtable_for_cage(t, src, new)

LockingExecStep ==
    \E t \in ThreadIds, cageid \in CageIds : locking_empty_fds_for_exec(t, cageid)

LockingExitStep ==
    \E t \in ThreadIds, cageid \in CageIds : locking_remove_cage_from_fdtable(t, cageid)

LockingRegisterStep == \E t \in ThreadIds : locking_register_close_handlers(t)

LockingEpollCreateStep ==
    \E t \in ThreadIds, cageid \in CageIds : locking_epoll_create_helper(t, cageid)

LockingEpollCtlStep ==
    \E t \in ThreadIds, cageid \in CageIds : locking_try_epoll_ctl(t, cageid)

LockingEpollWaitStep ==
    \E t \in ThreadIds, cageid \in CageIds : locking_get_epoll_wait_data(t, cageid)

\* A step of thread t inside its call.
ThreadRuns(t) == thread_lock(t) \/ thread_unlock(t) \/ thread_return(t)

ThreadLockStep == \E t \in ThreadIds : thread_lock(t)

ThreadUnlockStep == \E t \in ThreadIds : thread_unlock(t)

ThreadReturnStep == \E t \in ThreadIds : thread_return(t)

NextLocks ==
    \/ SpawnStep
    \/ LockingAllocateStep
    \/ LockingSetSpecificStep
    \/ LockingCloseStep
    \/ LockingForkStep
    \/ LockingExecStep
    \/ LockingExitStep
    \/ LockingRegisterStep
    \/ LockingEpollCreateStep
    \/ LockingEpollCtlStep
    \/ LockingEpollWaitStep
    \/ ThreadLockStep
    \/ ThreadUnlockStep
    \/ ThreadReturnStep

\* A thread that can take a step of its call takes it in the end: the
\* scheduler runs every thread that is not waiting for a lock.
SpecLocks ==
    /\ Init
    /\ [][NextLocks]_vars
    /\ \A t \in ThreadIds : WF_vars(ThreadRuns(t))

(***************************************************************************)
(* SpecEpollFork: a cage with epollfds is copied for a fork, and both      *)
(* cages go on calling try_epoll_ctl and get_epoll_wait_data.              *)
(***************************************************************************)
EpollForkCtlStep ==
    \E cageid \in DOMAIN fdtable, epfd \in VirtualFds, ctlop \in EpollCtlOps,
       virtfd \in VirtualFds, event \in EpollEvents :
        try_epoll_ctl(cageid, epfd, ctlop, virtfd, event)

EpollForkWaitStep ==
    \E cageid \in DOMAIN fdtable, epfd \in VirtualFds :
        get_epoll_wait_data(cageid, epfd)

NextEpollFork ==
    \/ EpollSetupStep
    \/ ForkStep
    \/ EpollForkCtlStep
    \/ EpollForkWaitStep

SpecEpollFork == Init /\ [][NextEpollFork]_vars

(***************************************************************************)
(* Properties.                                                             *)
(***************************************************************************)
IsSentinel(realfd) == realfd \in {NO_REAL_FD, EPOLLFD, INVALID_FD}

\* The (cage, slot) pairs whose record has the given realfd.
Holders(table, realfd) ==
    { cv \in (DOMAIN table) \X VirtualFds :
        /\ table[cv[1]][cv[2]] # None
        /\ table[cv[1]][cv[2]][1].realfd = realfd }

\* The count stored for realfd, an absent entry counting as 0.
CountOf(count, realfd) == IF realfd \in DOMAIN count THEN count[realfd] ELSE 0

\* The non-sentinel descriptors the callers use.
RealFds == { e.realfd : e \in Entries } \ {NO_REAL_FD}

\* C1 (RC-1 / I2): after any sequence of operations that returned, the count
\* stored for every non-sentinel real descriptor equals the number of
\* (cage, slot) pairs that hold it.
C1_RefCountEqualsHolders ==
    Running =>
        \A r \in RealFds :
            CountOf(realfdcount, r) = Cardinality(Holders(fdtable, r))

\* C2: whenever close, exec, exit or set_specific removes a slot holding the
\* real descriptor r, the handler called for it is final(r) if no other slot
\* holds r after that removal (none in the table the call leaves, none that
\* the same call removes later), and intermediate(r) otherwise.
C2_HandlerChoice ==
    \A i \in DOMAIN fired :
        (fired[i].kind \in {"intermediate", "last"} /\ ~IsSentinel(fired[i].arg))
        => (fired[i].kind = "last"
            <=> /\ Holders(fdtable, fired[i].arg) = {}
                /\ \A j \in DOMAIN fired :
                     j > i => ~(fired[j].kind \in {"intermediate", "last"}
                                /\ fired[j].arg = fired[i].arg))

\* C3 (RC-2): every entry of the counter has a count above 0, and the
\* decrement that calls final(r) leaves no entry for r.
C3_FinalRemovesEntry ==
    /\ \A r \in DOMAIN realfdcount : realfdcount[r] > 0
    /\ \A i \in DOMAIN fired :
         fired[i].kind = "last" => fired[i].arg \notin DOMAIN realfdcount

\* C4 (I7): set_specific(c, v, r, ..) on a slot that holds the real
\* descriptor r calls intermediate(r) exactly once, never final(r), and
\* leaves count[r] as it was.
C4_SameRealfdIsIntermediate ==
    [][\A c \in DOMAIN fdtable, v \in VirtualFds, e \in SmallEntries :
         ( /\ op' = Call("get_specific_virtual_fd", c, v)
           /\ get_specific_virtual_fd(c, v, e.realfd, e.should_cloexec,
                                      e.optionalinfo)
           /\ fdtable[c][v] # None
           /\ ~IsSentinel(e.realfd)
           /\ fdtable[c][v][1].realfd = e.realfd )
         => /\ fired' = <<HandlerCall("intermediate", e.realfd)>>
            /\ CountOf(realfdcount', e.realfd) = CountOf(realfdcount, e.realfd)
      ]_vars

\* C4 happens: a set_specific put realfd 10 over an occupant with realfd 10
\* (the handler call carries the occupant's realfd) while count[10] was 1.
C4_Witness ==
    /\ op.name = "get_specific_virtual_fd"
    /\ ret.tag = "Ok"
    /\ fired = <<HandlerCall("intermediate", 10)>>
    /\ fdtable[op.cageid][op.virtualfd][1].realfd = 10
    /\ CountOf(realfdcount, 10) = 1

\* The handler calls and the counter change set_specific owes the occupant
\* it evicts and the record it installs (C5).
EvictionAsClaimed(before, after, countbefore, countafter, occupant, e, calls) ==
    /\ occupant = None => calls = <<>>
    /\ (occupant # None /\ occupant[1].realfd = NO_REAL_FD)
       => calls = <<HandlerCall("unreal", occupant[1].optionalinfo)>>
    /\ (occupant # None /\ ~IsSentinel(occupant[1].realfd))
       => LET rold == occupant[1].realfd IN
          /\ calls = <<HandlerCall(IF Holders(after, rold) = {}
                                   THEN "last" ELSE "intermediate", rold)>>
          /\ CountOf(countafter, rold) =
                CountOf(countbefore, rold) - 1
                + (IF e.realfd = rold THEN 1 ELSE 0)
    /\ ~IsSentinel(e.realfd)
       => CountOf(countafter, e.realfd) =
             CountOf(countbefore, e.realfd) + 1
             - (IF occupant # None /\ occupant[1].realfd = e.realfd
                THEN 1 ELSE 0)

\* C5: for an in-range v, set_specific(c, v, r_new, cloexec, aux) succeeds
\* and leaves exactly that record in slot (c, v); a real occupant is
\* decremented once with its matching intermediate/final call, an unreal
\* occupant gets exactly unreal(aux_old), an empty slot gets no call, and
\* count[r_new] goes up by one when r_new is real.
C5_SilentEviction ==
    [][\A c \in DOMAIN fdtable, v \in VirtualFds, e \in Entries :
         ( /\ op' = Call("get_specific_virtual_fd", c, v)
           /\ get_specific_virtual_fd(c, v, e.realfd, e.should_cloexec,
                                      e.optionalinfo) )
         => /\ ret'.tag = "Ok"
            /\ fdtable' = [fdtable EXCEPT ![c][v] = Some(e)]
            /\ EvictionAsClaimed(fdtable, fdtable', realfdcount, realfdcount',
                                 fdtable[c][v], e, fired')
      ]_vars

\* C6: for every v >= FD_PER_PROCESS_MAX, set_specific returns EBADF, does
\* not panic, and changes neither the slot arrays nor the counter.
C6_OutOfRangeIsEBADF ==
    [][(op'.name = "get_specific_virtual_fd"
        /\ op'.virtualfd >= FD_PER_PROCESS_MAX)
       => /\ ret'.tag = "EBADF"
          /\ fdtable' = fdtable
          /\ realfdcount' = realfdcount
      ]_vars

\* C7 (RC-3): a sentinel is never a key of the counter, and intermediate and
\* final are never called with a sentinel.
C7_SentinelsNeverCounted ==
    /\ \A r \in DOMAIN realfdcount : ~IsSentinel(r)
    /\ \A i \in DOMAIN fired :
         fired[i].kind \in {"intermediate", "last"} => ~IsSentinel(fired[i].arg)

\* The lowest empty slot of an array that has one.
MinEmpty(array) ==
    CHOOSE v \in VirtualFds :
        /\ array[v] = None
        /\ \A w \in VirtualFds : array[w] = None => v <= w

\* C9 (I5): a successful allocate returns the lowest empty slot of the cage
\* and stores the given record in exactly that slot.
C9_FirstFit ==
    [][\A c \in DOMAIN fdtable, e \in SmallEntries :
         ( /\ op' = Call("get_unused_virtual_fd", c, 0)
           /\ ret'.tag = "Ok"
           /\ get_unused_virtual_fd(c, e.realfd, e.should_cloexec,
                                    e.optionalinfo) )
         => /\ \E v \in VirtualFds : fdtable[c][v] = None
            /\ ret'.val = MinEmpty(fdtable[c])
            /\ fdtable' = [fdtable EXCEPT ![c][MinEmpty(fdtable[c])] = Some(e)]
      ]_vars

\* C9 happens: an allocate filled a hole below an occupied slot.
C9_Witness ==
    /\ op.name = "get_unused_virtual_fd"
    /\ ret.tag = "Ok"
    /\ \E v \in VirtualFds :
         v > ret.val /\ fdtable[op.cageid][v] # None

\* C10: allocate returns EMFILE exactly when every slot of the cage is
\* occupied; on EMFILE nothing changes, and otherwise the count of a real
\* realfd goes up by exactly one (and no other count changes).
C10_Exhaustion ==
    [][\A c \in DOMAIN fdtable, e \in SmallEntries :
         ( /\ op' = Call("get_unused_virtual_fd", c, 0)
           /\ get_unused_virtual_fd(c, e.realfd, e.should_cloexec,
                                    e.optionalinfo) )
         => /\ ret'.tag = "EMFILE" <=> \A v \in VirtualFds : fdtable[c][v] # None
            /\ ret'.tag = "EMFILE"
               => (fdtable' = fdtable /\ realfdcount' = realfdcount)
            /\ ret'.tag # "EMFILE"
               => \A r \in RealFds :
                    CountOf(realfdcount', r) =
                        CountOf(realfdcount, r) + (IF r = e.realfd THEN 1 ELSE 0)
      ]_vars

\* C10 happens: an allocate on a full cage returned EMFILE.
C10_Witness ==
    /\ op.name = "get_unused_virtual_fd"
    /\ ret.tag = "EMFILE"
    /\ \A v \in VirtualFds : fdtable[op.cageid][v] # None

\* A handler that calls back into the library has been called and has not
\* returned.
ReentrantHandlerCalled ==
    /\ frame.phase \in {"handler", "deadlock"}
    /\ closehandlers[frame.handler.kind] = "_test_close_handler_recursion_helper"

\* C8: when a registered handler that calls back into the library
\* (register_close_handlers, allocate, close) is invoked by close,
\* set_specific, exec or exit, the thread holds no library lock while the
\* handler runs, and the call that invoked it eventually returns.
C8_HandlerReentrancy ==
    /\ [](ReentrantHandlerCalled => held = {})
    /\ (ReentrantHandlerCalled ~> (frame = Idle /\ ret.tag = "Ok"))

\* Every slot of every cage but (c, v) holds what it held before.
OtherSlotsUnchanged(before, after, c, v) ==
    /\ DOMAIN after = DOMAIN before
    /\ \A c2 \in DOMAIN before, v2 \in VirtualFds :
         (c2 # c \/ v2 # v) => after[c2][v2] = before[c2][v2]

\* C11: translate(c, v) returns the realfd of the record most recently
\* installed at (c, v): allocate and set_specific make it the realfd they
\* were given, fork gives the new cage the source's answers, no other call
\* makes it a different realfd, and only close, exec, exit and set_specific
\* take an answer away; an empty slot gives EBADFD; translate changes no
\* state, so repeated (or concurrent) translates of an unchanged slot agree.
C11_TranslateReturnsInstalled ==
    [][ /\ \A c \in DOMAIN fdtable, v \in VirtualFds :
             ( /\ op' = Call("translate_virtual_fd", c, v)
               /\ translate_virtual_fd(c, v) )
             => /\ ret' = IF fdtable[c][v] = None THEN Err("EBADFD")
                          ELSE Ok(fdtable[c][v][1].realfd)
                /\ UNCHANGED <<fdtable, realfdcount, closehandlers,
                               epolltable>>
        /\ \A c \in DOMAIN fdtable, e \in LookupEntries :
             ( /\ op' = Call("get_unused_virtual_fd", c, 0)
               /\ get_unused_virtual_fd(c, e.realfd, e.should_cloexec,
                                        e.optionalinfo)
               /\ ret'.tag = "Ok" )
             => /\ TranslateVirtualFdResult(fdtable', c, ret'.val)
                      = Ok(e.realfd)
                /\ fdtable[c][ret'.val] = None
                /\ OtherSlotsUnchanged(fdtable, fdtable', c, ret'.val)
        /\ \A c \in DOMAIN fdtable, v \in VirtualFds, e \in LookupEntries :
             ( /\ op' = Call("get_specific_virtual_fd", c, v)
               /\ get_specific_virtual_fd(c, v, e.realfd, e.should_cloexec,
                                          e.optionalinfo)
               /\ ret'.tag = "Ok" )
             => /\ TranslateVirtualFdResult(fdtable', c, v) = Ok(e.realfd)
                /\ OtherSlotsUnchanged(fdtable, fdtable', c, v)
        /\ \A src \in DOMAIN fdtable, new \in CageIds \ DOMAIN fdtable :
             ( /\ op' = Call("copy_fdtable_for_cage", src, 0)
               /\ copy_fdtable_for_cage(src, new) )
             => \A v \in VirtualFds :
                  /\ TranslateVirtualFdResult(fdtable', new, v)
                        = TranslateVirtualFdResult(fdtable, src, v)
                  /\ TranslateVirtualFdResult(fdtable', src, v)
                        = TranslateVirtualFdResult(fdtable, src, v)
        /\ \A c \in DOMAIN fdtable \cap DOMAIN fdtable', v \in VirtualFds :
             LET before == TranslateVirtualFdResult(fdtable, c, v)
                 after == TranslateVirtualFdResult(fdtable', c, v) IN
             /\ (after # before /\ after.tag = "Ok")
                => /\ op'.name \in {"get_unused_virtual_fd",
                                    "get_specific_virtual_fd"}
                   /\ op'.cageid = c
             /\ (after # before /\ after.tag # "Ok")
                => /\ op'.name \in {"close_virtualfd", "empty_fds_for_exec"}
                   /\ op'.cageid = c
      ]_vars

\* C11 happens: translate on a forked cage returned the realfd of a record
\* the fork copied.
C11_Witness ==
    /\ op.name = "translate_virtual_fd"
    /\ op.cageid # TESTING_CAGEID
    /\ ret = Ok(10)

CloexecSlots(array) ==
    { v \in VirtualFds : array[v] # None /\ array[v][1].should_cloexec }

OccupiedSlots(array) == { v \in VirtualFds : array[v] # None }

HoldingIn(array, slots, realfd) ==
    { v \in slots : array[v][1].realfd = realfd }

\* C13: exec(c) empties exactly the slots of c whose record has cloexec
\* set and keeps every other slot of c and every other cage as it was; it
\* makes one handler call per removed slot, and the count of every real
\* descriptor goes down by the number of removed slots that held it.
C13_ExecRemovesCloexec ==
    [][\A c \in DOMAIN fdtable :
         ( /\ op' = Call("empty_fds_for_exec", c, 0)
           /\ empty_fds_for_exec(c) )
         => LET removed == CloexecSlots(fdtable[c]) IN
            /\ ret' = Ok(0)
            /\ DOMAIN fdtable' = DOMAIN fdtable
            /\ \A c2 \in DOMAIN fdtable \ {c} : fdtable'[c2] = fdtable[c2]
            /\ \A v \in VirtualFds :
                 fdtable'[c][v] = IF v \in removed THEN None
                                  ELSE fdtable[c][v]
            /\ Len(fired') = Cardinality(removed)
            /\ \A r \in RealFds :
                 CountOf(realfdcount', r) =
                     CountOf(realfdcount, r)
                       - Cardinality(HoldingIn(fdtable[c], removed, r))
      ]_vars

\* C15: exit(c) makes one handler call per occupied slot of c, takes the
\* count of every real descriptor down by the number of slots of c that
\* held it, removes c from the table and leaves every other cage as it was.
C15_ExitClosesEverySlot ==
    [][\A c \in DOMAIN fdtable :
         ( /\ op' = Call("remove_cage_from_fdtable", c, 0)
           /\ remove_cage_from_fdtable(c) )
         => LET occupied == OccupiedSlots(fdtable[c]) IN
            /\ ret' = Ok(0)
            /\ DOMAIN fdtable' = DOMAIN fdtable \ {c}
            /\ \A c2 \in DOMAIN fdtable \ {c} : fdtable'[c2] = fdtable[c2]
            /\ Len(fired') = Cardinality(occupied)
            /\ \A r \in RealFds :
                 CountOf(realfdcount', r) =
                     CountOf(realfdcount, r)
                       - Cardinality(HoldingIn(fdtable[c], occupied, r))
      ]_vars

\* C14: right after fork(src, new) every slot of new equals the same slot
\* of src (empty where src is empty), and afterwards an allocate,
\* set_specific, set_cloexec, set_aux, close or exec on one cage leaves
\* every slot of every other cage as it was.
C14_ForkIndependence ==
    [][ /\ \A src \in DOMAIN fdtable, new \in CageIds \ DOMAIN fdtable :
             ( /\ op' = Call("copy_fdtable_for_cage", src, 0)
               /\ copy_fdtable_for_cage(src, new) )
             => /\ ret' = Ok(0)
                /\ DOMAIN fdtable' = DOMAIN fdtable \cup {new}
                /\ \A v \in VirtualFds : fdtable'[new][v] = fdtable[src][v]
                /\ \A c \in DOMAIN fdtable : fdtable'[c] = fdtable[c]
        /\ op'.name \in {"get_unused_virtual_fd", "get_specific_virtual_fd",
                         "set_cloexec", "set_optionalinfo",
                         "close_virtualfd", "empty_fds_for_exec"}
           => /\ DOMAIN fdtable' = DOMAIN fdtable
              /\ \A c \in DOMAIN fdtable \ {op'.cageid} :
                   fdtable'[c] = fdtable[c]
      ]_vars

\* C14 happens: after a fork, set_aux changed a slot of one cage and the
\* same slot of the other cage still has the aux it was forked with.
C14_Witness ==
    /\ op.name = "set_optionalinfo"
    /\ ret.tag = "Ok"
    /\ fdtable[op.cageid][op.virtualfd][1].optionalinfo = 500
    /\ \E c \in DOMAIN fdtable \ {op.cageid} :
         /\ fdtable[c][op.virtualfd] # None
         /\ fdtable[c][op.virtualfd][1].optionalinfo = 150

\* C17: on an occupied slot set_cloexec and set_aux change that one field
\* of that one slot and nothing else (not realfd, not the other field, no
\* other slot, not the reference counter); get_aux returns the aux that
\* allocate, set_specific or set_aux stored last and changes nothing; on an
\* empty slot the three return EBADFD and change nothing.
C17_FieldAccessors ==
    [][\A c \in DOMAIN fdtable, v \in VirtualFds :
         /\ \A flag \in BOOLEAN :
              ( /\ op' = Call("set_cloexec", c, v)
                /\ set_cloexec(c, v, flag) )
              => /\ realfdcount' = realfdcount
                 /\ OtherSlotsUnchanged(fdtable, fdtable', c, v)
                 /\ IF fdtable[c][v] = None
                    THEN ret' = Err("EBADFD") /\ fdtable' = fdtable
                    ELSE /\ ret' = Ok(0)
                         /\ fdtable'[c][v] =
                              Some([fdtable[c][v][1] EXCEPT
                                       !.should_cloexec = flag])
         /\ \A x \in AuxValues :
              ( /\ op' = Call("set_optionalinfo", c, v)
                /\ set_optionalinfo(c, v, x) )
              => /\ realfdcount' = realfdcount
                 /\ OtherSlotsUnchanged(fdtable, fdtable', c, v)
                 /\ IF fdtable[c][v] = None
                    THEN ret' = Err("EBADFD") /\ fdtable' = fdtable
                    ELSE /\ ret' = Ok(0)
                         /\ fdtable'[c][v] =
                              Some([fdtable[c][v][1] EXCEPT
                                       !.optionalinfo = x])
                         /\ GetOptionalinfoResult(fdtable', c, v) = Ok(x)
         /\ ( /\ op' = Call("get_optionalinfo", c, v)
              /\ get_optionalinfo(c, v) )
            => /\ UNCHANGED <<fdtable, realfdcount>>
               /\ ret' = IF fdtable[c][v] = None THEN Err("EBADFD")
                         ELSE Ok(fdtable[c][v][1].optionalinfo)
         /\ \A e \in AccessEntries :
              /\ ( /\ op' = Call("get_unused_virtual_fd", c, 0)
                   /\ get_unused_virtual_fd(c, e.realfd, e.should_cloexec,
                                            e.optionalinfo)
                   /\ ret' = Ok(v) )
                 => GetOptionalinfoResult(fdtable', c, v)
                       = Ok(e.optionalinfo)
              /\ ( /\ op' = Call("get_specific_virtual_fd", c, v)
                   /\ get_specific_virtual_fd(c, v, e.realfd,
                                              e.should_cloexec,
                                              e.optionalinfo) )
                 => GetOptionalinfoResult(fdtable', c, v)
                       = Ok(e.optionalinfo)
      ]_vars

\* C17 happens: get_aux returned the value a set_aux stored, on a slot whose
\* cloexec flag a set_cloexec had set.
C17_Witness ==
    /\ op.name = "get_optionalinfo"
    /\ ret = Ok(500)
    /\ fdtable[op.cageid][op.virtualfd][1].should_cloexec
    /\ \E v \in VirtualFds \ {op.virtualfd} :
         /\ fdtable[op.cageid][v] # None
         /\ fdtable[op.cageid][v][1].optionalinfo = 150

\* The calls that take the cage they work on as their cageid.
CageCalls ==
    {"translate_virtual_fd", "get_unused_virtual_fd",
     "get_specific_virtual_fd", "set_cloexec", "get_optionalinfo",
     "set_optionalinfo", "close_virtualfd", "remove_cage_from_fdtable",
     "empty_fds_for_exec", "epoll_create_helper", "copy_fdtable_for_cage"}

ClosedOnce(t, realfd) ==
    /\ threads[t].fn = "close_virtualfd"
    /\ threads[t].phase = "idle"
    /\ threads[t].calls = 1
    /\ threads[t].ret = Ok(0)
    /\ Len(threads[t].fired) = 1
    /\ threads[t].fired[1].arg = realfd

\* The two slots that held REALFD have been closed, one by each thread, and
\* nothing else was done since the threads were spawned.
BothClosed ==
    /\ \A t \in ThreadIds : ClosedOnce(t, REALFD)
    /\ Holders(fdtable, REALFD) = {}

\* C19: when the only two slots that hold a realfd are closed by two
\* threads, one close calls last(realfd), the other intermediate(realfd),
\* and the counter has no entry for the realfd once both have returned.
C19_ConcurrentLastCloses ==
    BothClosed =>
        /\ \E t \in ThreadIds, u \in ThreadIds :
              /\ threads[t].fired = <<HandlerCall("last", REALFD)>>
              /\ threads[u].fired = <<HandlerCall("intermediate", REALFD)>>
        /\ REALFD \notin DOMAIN realfdcount

\* Thread t has made one call, copy_fdtable_for_cage, which returned Ok.
ForkedOnce(t) ==
    /\ threads[t].fn = "copy_fdtable_for_cage"
    /\ threads[t].phase = "idle"
    /\ threads[t].calls = 1
    /\ threads[t].ret = Ok(0)

\* Thread u has made one call, an allocate, set_specific or close on the
\* cage that thread t forked, and the call has returned.
WorkedOnSource(u, t) ==
    /\ threads[u].fn \in {"get_unused_virtual_fd", "get_specific_virtual_fd", "close_virtualfd"}
    /\ threads[u].phase = "idle"
    /\ threads[u].calls = 1
    /\ threads[u].cageid = threads[t].cageid

\* C20: a fork that runs along with an allocate, set_specific or close on
\* its source never shows a new cage with a real slot that the counter has
\* no entry for, and once both calls have returned the count of every
\* realfd is the number of slots that hold it.
C20_ForkAtomicity ==
    \A t \in ThreadIds : \A u \in ThreadIds \ {t} :
        /\ (threads[t].fn = "copy_fdtable_for_cage" /\ threads[t].newcageid \in DOMAIN fdtable)
           => \A v \in VirtualFds :
                LET slot == fdtable[threads[t].newcageid][v] IN
                (slot # None /\ slot[1].realfd # NO_REAL_FD)
                    => slot[1].realfd \in DOMAIN realfdcount
        /\ (ForkedOnce(t) /\ WorkedOnSource(u, t))
           => \A realfd \in {REALFD} \cup DOMAIN realfdcount :
                CountOf(realfdcount, realfd) = Cardinality(Holders(fdtable, realfd))

\* Thread t has made one call, of fn, on slot (cageid, item), and the call
\* has returned Ok.
DoneOnce(t, fn, cageid, item) ==
    /\ threads[t].fn = fn
    /\ threads[t].phase = "idle"
    /\ threads[t].calls = 1
    /\ threads[t].ret.tag = "Ok"
    /\ threads[t].cageid = cageid
    /\ threads[t].item = item

\* In a serial order of set_specific(c, v, ..) and close(c, v) in which both
\* make a handler call, set_specific came first and close emptied the slot:
\* had close come first, set_specific would have found the slot empty.
EvictedThenClosed(t, u, v) ==
    ( /\ DoneOnce(t, "get_specific_virtual_fd", TESTING_CAGEID, v)
      /\ DoneOnce(u, "close_virtualfd", TESTING_CAGEID, v)
      /\ threads[t].fired # <<>>
      /\ threads[u].fired # <<>> )
    => fdtable[TESTING_CAGEID][v] = None

\* C21: two calls of two threads on one cage end as one of their two serial
\* orders does: the occupant of a slot is not closed twice, once by the
\* eviction of set_specific and once by close, and set_cloexec and set_aux
\* never panic on a slot that close emptied after their test.
C21_PerCageAtomicity ==
    \A t \in ThreadIds :
        /\ \A u \in ThreadIds \ {t}, v \in VirtualFds : EvictedThenClosed(t, u, v)
        /\ threads[t].fn \in {"set_cloexec", "set_optionalinfo"}
           => threads[t].phase # "panicked"

\* Thread t's last call is an allocate that has taken a slot: it is about to
\* count its realfd, or it has returned the slot.
Allocated(th) ==
    /\ th.fn = "get_unused_virtual_fd"
    /\ th.phase \in {"increment", "insert_one"} \/ (th.phase = "idle" /\ th.ret.tag = "Ok")

\* C22: threads that allocate in one cage never get the same virtual fd:
\* the step in which an allocate takes a slot fills one slot that was empty
\* with the caller's entry and changes no other, an allocate that fails and
\* the steps that count change no slot, the call returns the slot it took,
\* two threads hold different slots, and each slot translates to the realfd
\* its caller passed.
C22_ConcurrentAllocation ==
    [][ /\ \A t \in ThreadIds :
             LET th == threads[t]
                 nx == threads'[t] IN
             /\ (th.phase = "idle" /\ nx # th /\ Allocated(nx))
                => /\ fdtable[nx.cageid][nx.item] = None
                   /\ fdtable'[nx.cageid][nx.item] = nx.myentry
                   /\ OtherSlotsUnchanged(fdtable, fdtable', nx.cageid, nx.item)
                   /\ Cardinality(OccupiedSlots(fdtable'[nx.cageid]))
                        = Cardinality(OccupiedSlots(fdtable[nx.cageid])) + 1
             /\ (th.phase = "idle" /\ nx # th /\ ~Allocated(nx))
                => UNCHANGED fdtable
             /\ (th.phase # "idle" /\ nx # th)
                => /\ UNCHANGED fdtable
                   /\ nx.phase = "idle" => nx.ret = Ok(th.item)
             /\ Allocated(nx)
                => /\ TranslateVirtualFdResult(fdtable', nx.cageid, nx.item)
                        = Ok(nx.myentry[1].realfd)
                   /\ \A u \in ThreadIds \ {t} :
                        Allocated(threads'[u]) => threads'[u].item # nx.item
      ]_vars

\* C22 happens: both threads have allocated, with different realfds, and
\* both calls have returned.
C22_Witness ==
    /\ \A t \in ThreadIds :
         /\ threads[t].fn = "get_unused_virtual_fd"
         /\ threads[t].phase = "idle"
         /\ threads[t].ret.tag = "Ok"
    /\ threads["t1"].myentry # threads["t2"].myentry
    /\ threads["t1"].ret # threads["t2"].ret

\* The virtual fds a request mask selects: its bits below nfds.
SelectedBy(mask, nfds) == IF mask = None THEN {} ELSE {v \in mask[1] : v < nfds}

RequestMasks(call) == <<call.readbits, call.writebits, call.exceptbits>>

\* The request is one get_real_bitmasks_for_select must refuse.
RefusedRequest(table, call) ==
    \/ call.virtualfd >= FD_PER_PROCESS_MAX
    \/ \E i \in 1..3 : \E v \in SelectedBy(RequestMasks(call)[i], call.virtualfd) :
          table[call.cageid][v] = None

SelectedReal(table, call, i) ==
    {table[call.cageid][v][1].realfd : v \in {w \in SelectedBy(RequestMasks(call)[i], call.virtualfd) :
          ~IsSentinel(table[call.cageid][w][1].realfd)}}

SelectedUnreal(table, call, i) ==
    {<<v, table[call.cageid][v][1].optionalinfo>> : v \in {w \in SelectedBy(RequestMasks(call)[i], call.virtualfd) :
          table[call.cageid][w][1].realfd = NO_REAL_FD}}

SetMax(S) == IF S = {} THEN 0 ELSE CHOOSE x \in S : \A y \in S : y <= x

\* C24: a request get_real_bitmasks_for_select accepts gives, for each
\* mask, the bits of the real descriptors of the selected slots and the
\* unreal items of the selected unreal slots; no sentinel is in a mask or in
\* the reverse map; the new nfds is the highest selected real descriptor
\* plus one; a null mask gives a zero mask and no unreal items.
C24_SelectRequestTranslation ==
    op.name = "get_real_bitmasks_for_select" /\ ret.tag = "Ok" =>
        /\ \A i \in 1..3 :
              /\ ret.val.realbits[i] = SelectedReal(fdtable, op, i)
              /\ ret.val.unrealarray[i] = SelectedUnreal(fdtable, op, i)
              /\ RequestMasks(op)[i] = None =>
                    ret.val.realbits[i] = {} /\ ret.val.unrealarray[i] = {}
              /\ \A r \in ret.val.realbits[i] : ~IsSentinel(r)
        /\ \A r \in DOMAIN ret.val.mappingtable : ~IsSentinel(r)
        /\ ret.val.newnfds =
              SetMax({r + 1 : r \in UNION {SelectedReal(fdtable, op, i) : i \in 1..3}})

\* The selected virtual fds of mask i of the request whose slot holds a real
\* descriptor that is set in mask i of the kernel's reply.
ReadyReal(table, call, i) ==
    {v \in SelectedBy(RequestMasks(call.request)[i], call.request.virtualfd) :
        /\ ~IsSentinel(table[call.cageid][v][1].realfd)
        /\ table[call.cageid][v][1].realfd \in call.reply[i]}

\* C25: for a request get_real_bitmasks_for_select accepted and a reply
\* of the kernel within the translated masks, the reply translation returns
\* and sets the virtual bit v in a mask exactly when v was selected in that
\* mask of the request and its slot's real descriptor is set in that mask of
\* the reply, several selected virtual fds with one real descriptor
\* included; the virtual fds of the unreal sets come on top.
C25_SelectReverseMapping ==
    op.name = "get_virtual_bitmasks_from_select_result" =>
        /\ ret.tag = "Ok"
        /\ \A i \in 1..3 :
              ret.val.virtualbits[i] \ op.unrealsets[i]
                  = ReadyReal(fdtable, op, i) \ op.unrealsets[i]

\* C26 as claimed: the count the reply translation returns is the number of
\* distinct virtual fds set in at least one of the three returned masks.
C26_CountsDistinctDescriptors ==
    op.name = "get_virtual_bitmasks_from_select_result" /\ ret.tag = "Ok" =>
        ret.val.flagsset = Cardinality(UNION {ret.val.virtualbits[i] : i \in 1..3})

\* C26: the count the reply translation returns is the number of bits set
\* in the three returned masks together, a virtual fd set in two masks
\* counting twice; within one mask a virtual fd that comes both from the
\* kernel's reply and from the host's unreal set is counted once.
C26_SelectReplyCount ==
    op.name = "get_virtual_bitmasks_from_select_result" /\ ret.tag = "Ok" =>
        /\ ret.val.flagsset = Cardinality(ret.val.virtualbits[1])
                              + Cardinality(ret.val.virtualbits[2])
                              + Cardinality(ret.val.virtualbits[3])
        /\ \A i \in 1..3 : op.unrealsets[i] \subseteq ret.val.virtualbits[i]

\* A virtual fd ready in the read mask through the reply and through the
\* unreal set, and ready in the write mask too.
C26_Witness ==
    /\ op.name = "get_virtual_bitmasks_from_select_result"
    /\ ret.tag = "Ok"
    /\ \E v \in VirtualFds :
          /\ v \in op.unrealsets[1] \cap ReadyReal(fdtable, op, 1)
          /\ v \in ret.val.virtualbits[2]
    /\ ret.val.flagsset = 2

\* What a cage has at a virtual fd; past the end of the array, nothing.
SlotAt(table, cageid, v) == IF v \in DOMAIN table[cageid] THEN table[cageid][v] ELSE None

IsRealSlot(table, cageid, v) ==
    SlotAt(table, cageid, v) # None /\ ~IsSentinel(SlotAt(table, cageid, v)[1].realfd)

IsUnrealSlot(table, cageid, v) ==
    SlotAt(table, cageid, v) # None /\ SlotAt(table, cageid, v)[1].realfd = NO_REAL_FD

\* The classification of one conversion: call is the request, val its result.
PollClassified(table, call, val) ==
    LET c == call.cageid
        virt == call.virtualfds
        unreals == SelectSeq(virt, LAMBDA v : IsUnrealSlot(table, c, v))
    IN /\ Len(val.realvec) = Len(virt)
       /\ \A i \in DOMAIN virt :
             /\ IsRealSlot(table, c, virt[i]) =>
                   /\ val.realvec[i] = table[c][virt[i]][1].realfd
                   /\ val.realvec[i] \in DOMAIN val.mappingtable
                   /\ val.mappingtable[val.realvec[i]] = virt[i]
             /\ IsUnrealSlot(table, c, virt[i]) => val.realvec[i] = NO_REAL_FD
             /\ SlotAt(table, c, virt[i]) = None => val.realvec[i] = INVALID_FD
       /\ val.unrealvec = [i \in DOMAIN unreals |->
                              <<unreals[i], table[c][unreals[i]][1].optionalinfo>>]
       /\ val.invalidvec = SelectSeq(virt, LAMBDA v : SlotAt(table, c, v) = None)

\* C27: convert_virtualfds_to_real never fails and changes no table; its
\* realvec is as long as its input and has, index by index, the realfd of a
\* real slot, which the mappingtable takes back to the virtual fd,
\* NO_REAL_FD for an unreal slot and INVALID_FD for an empty one; unrealvec
\* and invalidvec have the unreal and the empty ones in the order and the
\* number of the input.
C27_PollClassification ==
    [][op'.name = "convert_virtualfds_to_real" /\ op # op' =>
         /\ ret'.tag = "Ok"
         /\ PollClassified(fdtable, op', ret'.val)
         /\ UNCHANGED <<fdtable, realfdcount, closehandlers, epolltable>>]_vars

\* C28: for a vector of virtual fds whose slots all hold real descriptors,
\* duplicates and several virtual fds on one real descriptor included,
\* converting to real fds and converting the result back with its
\* mappingtable gives the vector again, element by element.
C28_PollRoundTrip ==
    /\ op.name = "convert_realfds_back_to_virtual"
    /\ op.realfds = op.converted.realvec
    /\ \A i \in DOMAIN op.request.virtualfds :
          IsRealSlot(fdtable, op.cageid, op.request.virtualfds[i])
    => ret.tag = "Ok" /\ ret.val = op.request.virtualfds

\* An epollfd of the cage: a slot with the sentinel EPOLLFD whose
\* optionalinfo is an entry of the epoll table.
ValidEpollfd(table, ept, cageid, epfd) ==
    /\ epfd \in DOMAIN table[cageid]
    /\ table[cageid][epfd] # None
    /\ table[cageid][epfd][1].realfd = EPOLLFD
    /\ table[cageid][epfd][1].optionalinfo \in DOMAIN ept.thisepolltable

\* The map virtfd -> event the epoll table keeps for an epollfd.
ShadowMap(table, ept, cageid, epfd) ==
    ept.thisepolltable[table[cageid][epfd][1].optionalinfo]

RealEpollFdOf(table, ept, cageid, epfd) ==
    ept.realfdtable[table[cageid][epfd][1].optionalinfo]

\* The map after is the map before with v -> ev put in.
PutIn(before, after, v, ev) ==
    /\ DOMAIN after = DOMAIN before \cup {v}
    /\ after[v] = ev
    /\ \A k \in DOMAIN before \ {v} : after[k] = before[k]

\* The map after is the map before without v.
TakenOut(before, after, v) ==
    /\ DOMAIN after = DOMAIN before \ {v}
    /\ \A k \in DOMAIN after : after[k] = before[k]

\* C29: on an epollfd E of the cage and an unreal slot v other than E,
\* EPOLL_CTL_ADD returns EEXIST when v is in E's map and puts v -> event in
\* otherwise, EPOLL_CTL_MOD returns ENOENT when v is not there and
\* overwrites its event otherwise, EPOLL_CTL_DEL returns ENOENT when v is
\* not there and takes it out otherwise; a success returns E's real epollfd
\* with NO_REAL_FD and an error leaves the map as it was.
\* get_epoll_wait_data returns E's map as it is, with the real epollfd that
\* epoll_create_helper was given, which no later call changes.
C29_EpollShadowStateMachine ==
    [][/\ op'.name = "try_epoll_ctl"
          /\ ValidEpollfd(fdtable, epolltable, op'.cageid, op'.epfd)
          /\ op'.virtualfd # op'.epfd
          /\ IsUnrealSlot(fdtable, op'.cageid, op'.virtualfd)
          /\ op'.ctlop \in {EPOLL_CTL_ADD, EPOLL_CTL_MOD, EPOLL_CTL_DEL}
          => LET before == ShadowMap(fdtable, epolltable, op'.cageid, op'.epfd)
                 after == ShadowMap(fdtable', epolltable', op'.cageid, op'.epfd)
                 v == op'.virtualfd
                 there == v \in DOMAIN before
             IN /\ op'.ctlop = EPOLL_CTL_ADD =>
                      IF there THEN ret'.tag = "EEXIST"
                      ELSE ret'.tag = "Ok" /\ PutIn(before, after, v, op'.event)
                /\ op'.ctlop = EPOLL_CTL_MOD =>
                      IF there THEN ret'.tag = "Ok" /\ PutIn(before, after, v, op'.event)
                      ELSE ret'.tag = "ENOENT"
                /\ op'.ctlop = EPOLL_CTL_DEL =>
                      IF there THEN ret'.tag = "Ok" /\ TakenOut(before, after, v)
                      ELSE ret'.tag = "ENOENT"
                /\ ret'.tag = "Ok" =>
                      ret'.val = <<RealEpollFdOf(fdtable, epolltable, op'.cageid, op'.epfd), NO_REAL_FD>>
                /\ ret'.tag # "Ok" => epolltable' = epolltable
                /\ \A k \in DOMAIN epolltable.thisepolltable \ {fdtable[op'.cageid][op'.epfd][1].optionalinfo} :
                      epolltable'.thisepolltable[k] = epolltable.thisepolltable[k]
       /\ op'.name = "get_epoll_wait_data"
          /\ ValidEpollfd(fdtable, epolltable, op'.cageid, op'.virtualfd)
          => /\ ret' = [tag |-> "Ok",
                        val |-> <<RealEpollFdOf(fdtable, epolltable, op'.cageid, op'.virtualfd),
                                  ShadowMap(fdtable, epolltable, op'.cageid, op'.virtualfd)>>]
             /\ epolltable' = epolltable
       /\ \A realfd \in EpollRealFds :
             op'.name = "epoll_create_helper" /\ ret'.tag = "Ok"
             /\ epoll_create_helper(TESTING_CAGEID, realfd, FALSE)
             => /\ ValidEpollfd(fdtable', epolltable', TESTING_CAGEID, ret'.val)
                /\ RealEpollFdOf(fdtable', epolltable', TESTING_CAGEID, ret'.val) = realfd
                /\ ShadowMap(fdtable', epolltable', TESTING_CAGEID, ret'.val) = EmptyMap
       /\ \A k \in DOMAIN epolltable.realfdtable :
             /\ k \in DOMAIN epolltable'.realfdtable
             /\ epolltable'.realfdtable[k] = epolltable.realfdtable[k]
       /\ \A c \in DOMAIN fdtable, e \in VirtualFds :
             ValidEpollfd(fdtable, epolltable, c, e) =>
                 /\ c \in DOMAIN fdtable'
                 /\ fdtable'[c][e] = fdtable[c][e]]_vars

\* An epollfd's map after a successful EPOLL_CTL_MOD of an unreal fd.
C29_Witness ==
    /\ op.name = "try_epoll_ctl"
    /\ op.ctlop = EPOLL_CTL_MOD
    /\ ret.tag = "Ok"
    /\ ret.val[2] = NO_REAL_FD
    /\ ValidEpollfd(fdtable, epolltable, op.cageid, op.epfd)
    /\ op.virtualfd \in DOMAIN ShadowMap(fdtable, epolltable, op.cageid, op.epfd)
    /\ ShadowMap(fdtable, epolltable, op.cageid, op.epfd)[op.virtualfd] = op.event

\* C30: on an epollfd E of the cage and a slot v that holds a real
\* descriptor, try_epoll_ctl with EPOLL_CTL_ADD, EPOLL_CTL_MOD or
\* EPOLL_CTL_DEL returns E's real epollfd with v's realfd and changes
\* neither the epoll table nor any other table.
C30_EpollPassthrough ==
    [][/\ op'.name = "try_epoll_ctl"
       /\ ValidEpollfd(fdtable, epolltable, op'.cageid, op'.epfd)
       /\ IsRealSlot(fdtable, op'.cageid, op'.virtualfd)
       /\ op'.ctlop \in {EPOLL_CTL_ADD, EPOLL_CTL_MOD, EPOLL_CTL_DEL}
       => /\ ret' = [tag |-> "Ok",
                     val |-> <<RealEpollFdOf(fdtable, epolltable, op'.cageid, op'.epfd),
                               fdtable[op'.cageid][op'.virtualfd][1].realfd>>]
          /\ UNCHANGED <<fdtable, realfdcount, closehandlers, epolltable>>]_vars

\* A try_epoll_ctl on a real descriptor that returned the two real fds.
C30_Witness ==
    /\ op.name = "try_epoll_ctl"
    /\ op.ctlop \in {EPOLL_CTL_ADD, EPOLL_CTL_MOD, EPOLL_CTL_DEL}
    /\ ValidEpollfd(fdtable, epolltable, op.cageid, op.epfd)
    /\ IsRealSlot(fdtable, op.cageid, op.virtualfd)
    /\ ret = [tag |-> "Ok", val |-> <<RealEpollFdOf(fdtable, epolltable, op.cageid, op.epfd), 20>>]

\* C31: on an epollfd E of the cage and an occupied slot v other than E,
\* real or unreal, try_epoll_ctl with an op that is none of EPOLL_CTL_ADD,
\* EPOLL_CTL_MOD and EPOLL_CTL_DEL returns EINVAL and changes no table.
C31_EpollInvalidOp ==
    [][/\ op'.name = "try_epoll_ctl"
       /\ ValidEpollfd(fdtable, epolltable, op'.cageid, op'.epfd)
       /\ op'.virtualfd # op'.epfd
       /\ SlotAt(fdtable, op'.cageid, op'.virtualfd) # None
       /\ op'.ctlop \notin {EPOLL_CTL_ADD, EPOLL_CTL_MOD, EPOLL_CTL_DEL}
       => /\ ret'.tag = "EINVAL"
          /\ UNCHANGED <<fdtable, realfdcount, closehandlers, epolltable>>]_vars

\* The entry numbers the epoll table has.
EpollEntryNums(ept) == DOMAIN ept.thisepolltable \cup DOMAIN ept.realfdtable

\* The slots of all cages that hold the sentinel EPOLLFD with aux a.
EpollOwners(table, a) ==
    {cv \in (DOMAIN table) \X VirtualFds :
        /\ table[cv[1]][cv[2]] # None
        /\ table[cv[1]][cv[2]][1].realfd = EPOLLFD
        /\ table[cv[1]][cv[2]][1].optionalinfo = a}

\* C32: the epoll table has an entry for a exactly when a slot of some
\* cage holds EPOLLFD with aux a, so the close of the last such slot takes
\* the entry away; and the map of an epollfd keeps no virtual fd whose slot
\* in the epollfd's cage is empty.
C32_EpollShadowLifetime ==
    /\ \A a \in EpollEntryNums(epolltable) : EpollOwners(fdtable, a) # {}
    /\ \A c \in DOMAIN fdtable, e \in VirtualFds :
          (fdtable[c][e] # None /\ fdtable[c][e][1].realfd = EPOLLFD) =>
              /\ fdtable[c][e][1].optionalinfo \in DOMAIN epolltable.thisepolltable
              /\ fdtable[c][e][1].optionalinfo \in DOMAIN epolltable.realfdtable
              /\ \A w \in DOMAIN ShadowMap(fdtable, epolltable, c, e) :
                    SlotAt(fdtable, c, w) # None

\* The fd a first-fit scan from 0 over the slots of the cage returns.
FirstFit(thisfdtable) ==
    IF FirstUnused(thisfdtable, 0) < FD_PER_PROCESS_MAX
    THEN Ok(FirstUnused(thisfdtable, 0))
    ELSE Err("EMFILE")

\* C33: whatever allocate, set_specific and close calls came before, an
\* allocation of muthashmaxglobal on a cage returns the virtual fd (or
\* EMFILE) that a first-fit scan from 0 over the slots the cage has before
\* the call returns.
C33_WatermarkEquivalence ==
    [][/\ op'.name = "muthashmax_get_unused_virtual_fd"
       /\ op'.cageid \in DOMAIN fdtable
       => ret' = FirstFit(fdtable[op'.cageid])]_vars

\* C39: a successful allocation of muthashmaxglobal returns a virtual fd
\* whose slot held nothing immediately before the call.
C39_AllocationNeverOverwrites ==
    [][/\ op'.name = "muthashmax_get_unused_virtual_fd"
       /\ op'.cageid \in DOMAIN fdtable
       /\ ret'.tag = "Ok"
       => MapGet(fdtable[op'.cageid], ret'.val) = None]_vars

\* C34: whenever a close handler is invoked on behalf of close_virtualfd,
\* empty_fds_for_exec or remove_cage_from_fdtable, the slot being closed is
\* already None and REALFDCOUNT already holds the count after the
\* decrement, with no entry left for a realfd whose count reached 0.
C34_CommitBeforeCallback ==
    (/\ frame.phase = "handler"
     /\ frame.fn \in {"close_virtualfd", "empty_fds_for_exec",
                      "remove_cage_from_fdtable"})
    => /\ fdtable[frame.cageid][frame.item] = None
       /\ (frame.handler.kind = "intermediate"
           => /\ frame.handler.arg \in DOMAIN realfdcount
              /\ realfdcount[frame.handler.arg] = frame.newcount)
       /\ (frame.handler.kind = "last"
           => frame.handler.arg \notin DOMAIN realfdcount)

\* C35: try_epoll_ctl(c, E, op, v, ev) returns EINVAL when E = v, whatever
\* the slots hold; otherwise EBADF when slot E is None; otherwise EINVAL
\* when slot E does not hold EPOLLFD; otherwise EBADF when slot v is None;
\* and none of these returns changes the slot arrays, the reference
\* counter, the handlers or the epoll table.
C35_EpollCtlArgumentChecks ==
    [][/\ op'.name = "try_epoll_ctl"
       /\ op'.cageid \in DOMAIN fdtable
       => LET E == op'.epfd
              v == op'.virtualfd
              slots == fdtable[op'.cageid]
              same == E = v
              noE == ~same /\ E \in VirtualFds /\ slots[E] = None
              notEpoll == /\ ~same /\ E \in VirtualFds /\ slots[E] # None
                          /\ slots[E][1].realfd # EPOLLFD
              noV == /\ ~same /\ E \in VirtualFds /\ slots[E] # None
                     /\ slots[E][1].realfd = EPOLLFD
                     /\ v \in VirtualFds /\ slots[v] = None IN
          /\ same => ret'.tag = "EINVAL"
          /\ noE => ret'.tag = "EBADF"
          /\ notEpoll => ret'.tag = "EINVAL"
          /\ noV => ret'.tag = "EBADF"
          /\ (same \/ noE \/ notEpoll \/ noV)
             => UNCHANGED <<fdtable, realfdcount, closehandlers, epolltable>>]_vars

\* A call with E = v on a slot that is None has returned EINVAL.
C35_Witness ==
    /\ op.name = "try_epoll_ctl"
    /\ op.epfd = op.virtualfd
    /\ op.epfd \in VirtualFds
    /\ fdtable[op.cageid][op.epfd] = None
    /\ ret.tag = "EINVAL"
    /\ \E w \in VirtualFds : ValidEpollfd(fdtable, epolltable, op.cageid, w)

\* The slots of any cage that hold an epollfd with optionalinfo a.
UsesEpollEntry(table, a) == EpollOwners(table, a) # {}

\* C36: epoll_create_helper(c, real_epollfd, cloexec) on a cage with an
\* empty slot returns the lowest empty virtual fd; the slot then holds
\* {EPOLLFD, cloexec, a} where a is an entry number no earlier epollfd had,
\* and the epoll table maps a to real_epollfd and to an empty map.  On a
\* full cage it returns EMFILE and the epoll table (entries and next free
\* number) and the slot arrays are as before.
C36_EpollCreateHelper ==
    [][\A realfd \in EpollRealFds, should_cloexec \in BOOLEAN :
         /\ op'.name = "epoll_create_helper"
         /\ op'.cageid \in DOMAIN fdtable
         /\ epoll_create_helper(op'.cageid, realfd, should_cloexec)
         => LET c == op'.cageid
                free == {v \in VirtualFds : fdtable[c][v] = None} IN
            IF free = {}
            THEN /\ ret'.tag = "EMFILE"
                 /\ UNCHANGED <<fdtable, epolltable>>
            ELSE /\ ret'.tag = "Ok"
                 /\ ret'.val \in free
                 /\ \A w \in free : ret'.val <= w
                 /\ \A w \in VirtualFds \ {ret'.val} : fdtable'[c][w] = fdtable[c][w]
                 /\ fdtable'[c][ret'.val] # None
                 /\ LET slot == fdtable'[c][ret'.val][1] IN
                    /\ slot.realfd = EPOLLFD
                    /\ slot.should_cloexec = should_cloexec
                    /\ slot.optionalinfo \notin DOMAIN epolltable.realfdtable
                    /\ slot.optionalinfo \notin DOMAIN epolltable.thisepolltable
                    /\ ~UsesEpollEntry(fdtable, slot.optionalinfo)
                    /\ DOMAIN epolltable'.realfdtable =
                           DOMAIN epolltable.realfdtable \cup {slot.optionalinfo}
                    /\ epolltable'.realfdtable[slot.optionalinfo] = realfd
                    /\ epolltable'.thisepolltable[slot.optionalinfo] = EmptyMap
                    /\ \A k \in DOMAIN epolltable.realfdtable :
                          /\ epolltable'.realfdtable[k] = epolltable.realfdtable[k]
                          /\ epolltable'.thisepolltable[k] = epolltable.thisepolltable[k]]_vars

\* A second epollfd has been made while the first is still in its slot.
C36_Witness ==
    /\ op.name = "epoll_create_helper"
    /\ ret.tag = "Ok"
    /\ epolltable.highestneverusedentry = 2
    /\ UsesEpollEntry(fdtable, 0)
    /\ UsesEpollEntry(fdtable, 1)

\* C37: when refresh() has returned, whatever ran before it, FDTABLE holds
\* the testing cage alone with every slot None, the three handlers are
\* NULL_FUNC, REALFDCOUNT is empty and EPOLLTABLE is empty with its next
\* entry number 0: the state the library starts in.
C37_RefreshResetsAll ==
    op.name = "refresh"
    => /\ fdtable = (TESTING_CAGEID :> EmptyArray)
       /\ closehandlers = NullHandlers
       /\ realfdcount = EmptyMap
       /\ epolltable = [highestneverusedentry |-> 0,
                        thisepolltable |-> EmptyMap, realfdtable |-> EmptyMap]

\* The order the locks are taken in: EPOLLTABLE, then a shard of FDTABLE,
\* then CLOSEHANDLERTABLE, then REALFDCOUNT.
LockRank(lock) ==
    CASE lock[1] = "EPOLLTABLE" -> 0
      [] lock[1] = "FDTABLE" -> 1
      [] lock[1] = "CLOSEHANDLERTABLE" -> 2
      [] lock[1] = "REALFDCOUNT" -> 3

\* Every lock a thread asks for comes later in the order than every lock
\* it holds.
LocksInOrder ==
    \A t \in ThreadIds :
        (threads[t].script # <<>> /\ Head(threads[t].script).do = "lock")
        => \A h \in threads[t].locks :
              LockRank(h.lock) < LockRank(Head(threads[t].script).lock)

\* C38: with handlers that take no lock, the calls that threads make at
\* the same time, on one cage or on several, take their locks in one
\* order (no cycle of threads that wait for each other can form), and
\* every call that has begun returns.
C38_DeadlockFreedom ==
    /\ []LocksInOrder
    /\ \A t \in ThreadIds :
          (threads[t].phase = "locks") ~> (threads[t].phase = "idle" /\ threads[t].locks = {})

\* A thread in epoll_create_helper holds EPOLLTABLE and waits for the shard
\* that another thread's call has a guard of.
C38_Witness ==
    \E t \in ThreadIds, u \in ThreadIds :
        /\ t # u
        /\ [lock |-> EPOLLTABLELock, mode |-> "write"] \in threads[t].locks
        /\ threads[t].script # <<>>
        /\ Head(threads[t].script).do = "lock"
        /\ ~LockFree(t, Head(threads[t].script).lock, Head(threads[t].script).mode)
        /\ Head(threads[t].script).lock[1] = "FDTABLE"
        /\ Head(threads[t].script).mode = "write"
        /\ threads[u].phase = "locks"
        /\ threads[u].locks # {}

\* C40: once a cage that holds an epollfd E has been copied by
\* copy_fdtable_for_cage, a try_epoll_ctl in one of the two cages leaves
\* what get_epoll_wait_data returns for E in the other cage as it was.
C40_ForkEpollIndependence ==
    [][op'.name = "try_epoll_ctl"
       => \A other \in DOMAIN fdtable \ {op'.cageid}, E \in VirtualFds :
             ValidEpollfd(fdtable, epolltable, other, E)
             => EpollWaitDataResult(fdtable', epolltable', other, E)
                    = EpollWaitDataResult(fdtable, epolltable, other, E)]_vars

====
